---------------------------- MODULE Spec2Model ----------------------------
(***************************************************************************)
(* geoauth-backend: the authentication, IP-validation, geo-resolution and  *)
(* history pipeline as a state machine.                                    *)
(*                                                                         *)
(* Strings the code inspects character by character (IP literals, emails,  *)
(* passwords, ids) are sequences of one-character strings.  JavaScript     *)
(* values of unknown type are records [t, s, n, fin] (JsStr, JsNum, ...).  *)
(* Every await of the code that touches shared state or an external        *)
(* service is a separate step of the request that performs it.             *)
(***************************************************************************)
EXTENDS Integers, Sequences, FiniteSets, TLC

(***************************************************************************)
(* Characters and strings                                                  *)
(***************************************************************************)
Digits == <<"0", "1", "2", "3", "4", "5", "6", "7", "8", "9">>

Upper == <<"A", "B", "C", "D", "E", "F", "G", "H", "I", "J", "K", "L", "M",
           "N", "O", "P", "Q", "R", "S", "T", "U", "V", "W", "X", "Y", "Z">>

Lower == <<"a", "b", "c", "d", "e", "f", "g", "h", "i", "j", "k", "l", "m",
           "n", "o", "p", "q", "r", "s", "t", "u", "v", "w", "x", "y", "z">>

IsDigit(c) == \E i \in 1..Len(Digits) : Digits[i] = c

DigitVal(c) == (CHOOSE i \in 1..Len(Digits) : Digits[i] = c) - 1

IsHexDigit(c) ==
    \/ IsDigit(c)
    \/ \E i \in 1..6 : Lower[i] = c \/ Upper[i] = c

IsSpace(c) == c \in {" ", "\t", "\n"}

LowerChar(c) ==
    IF \E i \in 1..Len(Upper) : Upper[i] = c
    THEN Lower[CHOOSE i \in 1..Len(Upper) : Upper[i] = c]
    ELSE c

\* String.prototype.toLowerCase
ToLower(s) == [i \in 1..Len(s) |-> LowerChar(s[i])]

\* s.slice(from) with a 1-based first kept position
DropFirst(s, k) == IF k >= Len(s) THEN <<>> ELSE SubSeq(s, k + 1, Len(s))

TakeFirst(s, k) == IF k <= 0 THEN <<>> ELSE SubSeq(s, 1, IF k > Len(s) THEN Len(s) ELSE k)

RECURSIVE TrimLeft(_)
TrimLeft(s) == IF s # <<>> /\ IsSpace(Head(s)) THEN TrimLeft(Tail(s)) ELSE s

RECURSIVE TrimRight(_)
TrimRight(s) ==
    IF s # <<>> /\ IsSpace(s[Len(s)]) THEN TrimRight(SubSeq(s, 1, Len(s) - 1)) ELSE s

\* String.prototype.trim
Trim(s) == TrimRight(TrimLeft(s))

\* String.prototype.startsWith / endsWith / includes
StartsWith(s, p) == Len(p) <= Len(s) /\ SubSeq(s, 1, Len(p)) = p

EndsWith(s, p) == Len(p) <= Len(s) /\ SubSeq(s, Len(s) - Len(p) + 1, Len(s)) = p

Includes(s, c) == \E i \in 1..Len(s) : s[i] = c

\* String.prototype.indexOf / lastIndexOf for one character; 0 when absent (JS: -1)
IndexOf(s, c) == IF Includes(s, c) THEN CHOOSE i \in 1..Len(s) : s[i] = c /\ \A j \in 1..(i - 1) : s[j] # c ELSE 0

LastIndexOf(s, c) ==
    IF Includes(s, c)
    THEN CHOOSE i \in 1..Len(s) : s[i] = c /\ \A j \in (i + 1)..Len(s) : s[j] # c
    ELSE 0

\* String.prototype.split(c) for a one-character separator
RECURSIVE Split(_, _)
Split(s, c) ==
    IF ~Includes(s, c) THEN <<s>>
    ELSE LET i == IndexOf(s, c)
         IN <<TakeFirst(s, i - 1)>> \o Split(DropFirst(s, i), c)

\* /^\d+$/.test(s)
AllDigits(s) == s # <<>> /\ \A i \in 1..Len(s) : IsDigit(s[i])

RECURSIVE DecimalValue(_)
DecimalValue(s) ==
    IF s = <<>> THEN 0 ELSE 10 * DecimalValue(SubSeq(s, 1, Len(s) - 1)) + DigitVal(s[Len(s)])

(***************************************************************************)
(* JavaScript values                                                       *)
(***************************************************************************)
JsUndef == [t |-> "undefined", s |-> <<>>, n |-> 0, fin |-> FALSE]

JsNull == [t |-> "null", s |-> <<>>, n |-> 0, fin |-> FALSE]

JsStr(s) == [t |-> "string", s |-> s, n |-> 0, fin |-> FALSE]

JsNum(n) == [t |-> "number", s |-> <<>>, n |-> n, fin |-> TRUE]

\* NaN and the infinities: typeof "number", not finite
JsNaN == [t |-> "number", s |-> <<>>, n |-> 0, fin |-> FALSE]

\* the infinities: typeof "number", not finite, n is the sign
JsInf(sign) == [t |-> "number", s |-> <<>>, n |-> sign, fin |-> FALSE]

\* Number.isNaN
NumberIsNaN(v) == v.t = "number" /\ ~v.fin /\ v.n = 0

InfinityText == <<"I", "n", "f", "i", "n", "i", "t", "y">>

\* a numeric text without its sign, and the sign
Unsigned(v) == IF v # <<>> /\ v[1] \in {"-", "+"} THEN Tail(v) ELSE v

SignOf(v) == IF v # <<>> /\ v[1] = "-" THEN 0 - 1 ELSE 1

NumberOfTrimmed(v) ==
    IF v = <<>> THEN JsNum(0)
    ELSE IF AllDigits(Unsigned(v)) THEN JsNum(SignOf(v) * DecimalValue(Unsigned(v)))
    ELSE IF Unsigned(v) = InfinityText THEN JsInf(SignOf(v))
    ELSE JsNaN

\* Number(s) of a string: whitespace is trimmed, "" is 0, a run of decimal
\* digits with an optional sign is its value, "Infinity" with an optional
\* sign is an infinity, anything else over the model's alphabet is NaN
JsNumberOfString(s) == NumberOfTrimmed(Trim(s))

\* a <= b for two numbers that are not NaN
NumLeq(a, b) ==
    IF a.fin /\ b.fin THEN a.n <= b.n
    ELSE IF ~a.fin THEN (a.n < 0 \/ (~b.fin /\ b.n > 0))
    ELSE b.n > 0

\* Math.min and Math.max: NaN if either argument is NaN
MathMin(a, b) ==
    IF NumberIsNaN(a) \/ NumberIsNaN(b) THEN JsNaN ELSE IF NumLeq(a, b) THEN a ELSE b

MathMax(a, b) ==
    IF NumberIsNaN(a) \/ NumberIsNaN(b) THEN JsNaN ELSE IF NumLeq(a, b) THEN b ELSE a

(***************************************************************************)
(* IP normalisation, validation and classification                         *)
(***************************************************************************)
PrefixMappedV4 == <<":", ":", "f", "f", "f", "f", ":">>

\* "[::1]" -> "::1"
StripBrackets(ip) ==
    IF StartsWith(ip, <<"[">>) /\ EndsWith(ip, <<"]">>)
    THEN Trim(IF Len(ip) < 2 THEN <<>> ELSE SubSeq(ip, 2, Len(ip) - 1))
    ELSE ip

\* "::ffff:1.2.3.4" -> "1.2.3.4", whatever the case of the prefix
StripMappedPrefix(ip) ==
    IF StartsWith(ToLower(ip), PrefixMappedV4) THEN DropFirst(ip, Len(PrefixMappedV4)) ELSE ip

\* "fe80::1%lo0" -> "fe80::1"
StripZone(ip) == IF Includes(ip, "%") THEN TakeFirst(ip, IndexOf(ip, "%") - 1) ELSE ip

\* "1.2.3.4:1234" -> "1.2.3.4": only with both "." and ":" and digits after
\* the last ":"
StripPort(ip) ==
    IF Includes(ip, ".") /\ Includes(ip, ":") /\ AllDigits(DropFirst(ip, LastIndexOf(ip, ":")))
    THEN TakeFirst(ip, LastIndexOf(ip, ":") - 1)
    ELSE ip

\* ip || null
StringOrNull(ip) == IF ip = <<>> THEN JsNull ELSE JsStr(ip)

\* normalizeIp (utils/ip.ts) and normalizeIpInput (utils/validate.ts) have
\* the same body; the result is a JsStr or JsNull
normalizeIp(raw) ==
    IF raw.t # "string" THEN JsNull
    ELSE IF Trim(raw.s) = <<>> THEN JsNull
    ELSE StringOrNull(Trim(StripPort(StripZone(StripMappedPrefix(StripBrackets(Trim(raw.s)))))))

normalizeIpInput(value) == normalizeIp(value)

\* One decimal octet of net.isIPv4: 0..255 without a leading zero
IsV4Octet(p) ==
    /\ AllDigits(p)
    /\ Len(p) <= 3
    /\ (Len(p) > 1 => p[1] # "0")
    /\ DecimalValue(p) <= 255

V4Parts(parts) == Len(parts) = 4 /\ \A i \in 1..4 : IsV4Octet(parts[i])

isIPv4(s) == V4Parts(Split(s, "."))

IsV6Seg(p) == Len(p) \in 1..4 /\ \A i \in 1..Len(p) : IsHexDigit(p[i])

\* the groups of one side of an IPv6 literal: hexadecimal segments, the last
\* of which may be an embedded IPv4 address when lastV4 allows it
V6GroupsOk(groups, lastV4) ==
    \A i \in 1..Len(groups) :
        \/ IsV6Seg(groups[i])
        \/ (lastV4 /\ i = Len(groups) /\ isIPv4(groups[i]))

\* number of 16-bit groups the listed groups stand for
V6GroupCount(groups) ==
    IF groups # <<>> /\ isIPv4(groups[Len(groups)]) THEN Len(groups) + 1 ELSE Len(groups)

\* position of the first "::" of s, 0 when there is none
DoubleColonAt(s) ==
    IF \E i \in 1..(Len(s) - 1) : s[i] = ":" /\ s[i + 1] = ":"
    THEN CHOOSE i \in 1..(Len(s) - 1) :
             /\ s[i] = ":" /\ s[i + 1] = ":"
             /\ \A j \in 1..(i - 1) : ~(s[j] = ":" /\ s[j + 1] = ":")
    ELSE 0

\* the groups of one side of "::": none for an empty side
SideGroups(side) == IF side = <<>> THEN <<>> ELSE Split(side, ":")

\* an IPv6 literal with "::" between left and right: at most 7 groups
V6Compressed(lgroups, rgroups) ==
    /\ V6GroupsOk(lgroups, FALSE)
    /\ V6GroupsOk(rgroups, TRUE)
    /\ Len(lgroups) + V6GroupCount(rgroups) <= 7

\* an IPv6 literal without "::": exactly 8 groups
V6Full(groups) == V6GroupsOk(groups, TRUE) /\ V6GroupCount(groups) = 8

V6At(s, dc) ==
    IF dc = 0 THEN V6Full(Split(s, ":"))
    ELSE V6Compressed(SideGroups(TakeFirst(s, dc - 1)), SideGroups(DropFirst(s, dc + 1)))

\* net.isIPv6 without a zone index (normalisation has removed it)
isIPv6(s) == V6At(s, DoubleColonAt(s))

\* ipVersion: net.isIP, 0 | 4 | 6
ipVersion(ip) == IF isIPv4(ip) THEN 4 ELSE IF isIPv6(ip) THEN 6 ELSE 0

isValidIp(ip) == ipVersion(ip) # 0

\* the second dot-separated part of v is a number in 16..31
SecondOctetIn16To31(second) == second.fin /\ second.n >= 16 /\ second.n <= 31

\* the prefix tests of isPrivateIp on the trimmed, lower-cased text v
PrivateText(v) ==
    \/ v = <<"1", "2", "7", ".", "0", ".", "0", ".", "1">>
    \/ v = <<":", ":", "1">>
    \/ StartsWith(v, <<"1", "0", ".">>)
    \/ StartsWith(v, <<"1", "9", "2", ".", "1", "6", "8", ".">>)
    \/ (StartsWith(v, <<"1", "7", "2", ".">>)
           /\ SecondOctetIn16To31(JsNumberOfString(Split(v, ".")[2])))
    \/ StartsWith(v, <<"1", "6", "9", ".", "2", "5", "4", ".">>)
    \/ StartsWith(v, <<"f", "c">>)
    \/ StartsWith(v, <<"f", "d">>)
    \/ StartsWith(v, <<"f", "e", "8">>)
    \/ StartsWith(v, <<"f", "e", "9">>)
    \/ StartsWith(v, <<"f", "e", "a">>)
    \/ StartsWith(v, <<"f", "e", "b">>)

isPrivateIp(ip) == PrivateText(ToLower(Trim(ip)))

(***************************************************************************)
(* Errors                                                                  *)
(***************************************************************************)
\* new AppError(statusCode, message, code)
AppError(statusCode, message, code) ==
    [type |-> "AppError", statusCode |-> statusCode, message |-> message, code |-> code]

NoError == [type |-> "none", statusCode |-> 0, message |-> "", code |-> ""]

\* a value returned or an error thrown by a call
Return(v) == [kind |-> "return", value |-> v, error |-> NoError]

Throw(e) == [kind |-> "throw", value |-> JsNull, error |-> e]

\* assertIp: the normalised IP, or AppError 400 INVALID_IP
AssertNormalized(ip) ==
    IF ip.t # "string" \/ ~isValidIp(ip.s)
    THEN Throw(AppError(400, "Invalid IP address", "INVALID_IP"))
    ELSE Return(ip)

\* an assertIp that normalises and does not validate
assertIpUnchecked(value) == Return(normalizeIpInput(value))

assertIp(value) == AssertNormalized(normalizeIpInput(value))

\* the first of the candidates a, b, c, d that is not null
FirstNonNull(a, b, c, d) ==
    IF a.t = "string" THEN a
    ELSE IF b.t = "string" THEN b
    ELSE IF c.t = "string" THEN c
    ELSE d

\* xff.split(",")[0]?.trim(), normalised; a header that is absent or empty
\* is skipped
FromForwardedFor(xff) ==
    IF xff.t = "string" /\ xff.s # <<>>
    THEN normalizeIp(JsStr(Trim(Split(xff.s, ",")[1])))
    ELSE JsNull

FromRealIp(realIp) ==
    IF realIp.t = "string" /\ realIp.s # <<>> THEN normalizeIp(realIp) ELSE JsNull

\* getClientIp: the first candidate that normalises to a value wins
getClientIp(c) ==
    FirstNonNull(FromForwardedFor(c.xff), FromRealIp(c.realIp), normalizeIp(c.ip),
                 normalizeIp(c.sock))

(***************************************************************************)
(* Credentials: validation and hashing                                     *)
(***************************************************************************)
MaxEmailLen == 254

MinPasswordLen == 8

MaxPasswordLen == 72

DEFAULT_BCRYPT_COST == 12

\* a normalisation that keeps the case
normalizeEmailKeepCase(value) ==
    IF value.t # "string" THEN JsNull ELSE StringOrNull(Trim(value.s))

\* normalizeEmail: trim + lower case; JsNull when not a string or empty
normalizeEmail(value) ==
    IF value.t # "string" THEN JsNull ELSE StringOrNull(ToLower(Trim(value.s)))

\* isValidEmail: /^[^\s@]+@[^\s@]+\.[^\s@]+$/ and at most 254 characters
isValidEmail(email) ==
    /\ email # <<>>
    /\ Len(email) <= MaxEmailLen
    /\ \A i \in 1..Len(email) : ~IsSpace(email[i])
    /\ Cardinality({i \in 1..Len(email) : email[i] = "@"}) = 1
    /\ LET at == IndexOf(email, "@")
       IN /\ at > 1
          /\ \E d \in (at + 2)..(Len(email) - 1) : email[d] = "."

AssertNormalizedEmail(email) ==
    IF email.t # "string" \/ ~isValidEmail(email.s)
    THEN Throw(AppError(400, "Invalid email", "INVALID_EMAIL"))
    ELSE Return(email)

\* assertEmail: the normalised email, or AppError 400 INVALID_EMAIL
assertEmail(value) == AssertNormalizedEmail(normalizeEmail(value))

isValidPassword(password) ==
    /\ password # <<>>
    /\ Trim(password) # <<>>
    /\ Len(password) >= MinPasswordLen
    /\ Len(password) <= MaxPasswordLen

\* assertPassword: the password itself, never trimmed
assertPassword(value) ==
    IF value.t # "string" \/ ~isValidPassword(value.s)
    THEN Throw(AppError(400, "Invalid password", "INVALID_PASSWORD"))
    ELSE Return(value)

\* parseAuthBody: the body is an object with fields email and password
ParsedBody(e, p) ==
    IF e.kind = "throw" THEN e
    ELSE IF p.kind = "throw" THEN p
    ELSE [kind |-> "return", value |-> JsNull, error |-> NoError,
          email |-> e.value.s, password |-> p.value.s]

parseAuthBody(email, password) == ParsedBody(assertEmail(email), assertPassword(password))

\* bcrypt.hash: a one-way value that only bcrypt.compare can test (the salt
\* is left out: it does not change what compare answers)
hashPassword(password) == [alg |-> "bcrypt", cost |-> DEFAULT_BCRYPT_COST, of |-> password]

NoHash == [alg |-> "none", cost |-> 0, of |-> <<>>]

\* bcrypt.compare
verifyPassword(password, passwordHash) ==
    passwordHash.alg = "bcrypt" /\ passwordHash.of = password

(***************************************************************************)
(* Tokens                                                                  *)
(***************************************************************************)
\* model scale of the token lifetime (JWT_EXPIRES_IN, default "7d")
TokenLifetime == 1

\* process.env.JWT_SECRET unset or empty
NoSecret == ""

\* a token: the key that signed it, its payload and the exp claim
Token(key, payload, sub, email, iat, exp) ==
    [wellFormed |-> TRUE, key |-> key, payload |-> payload,
     sub |-> sub, email |-> email, iat |-> iat, exp |-> exp]

\* text in the token position that is no JWT at all
GarbageToken ==
    [wellFormed |-> FALSE, key |-> "", payload |-> "object",
     sub |-> JsUndef, email |-> JsUndef, iat |-> 0, exp |-> 0]

\* a getJwtSecret that reports the missing secret as 401
getJwtSecretUnauthorized(secret) ==
    IF secret = NoSecret
    THEN Throw(AppError(401, "Unauthorized", "UNAUTHORIZED"))
    ELSE Return(JsNull)

\* getJwtSecret (utils/jwt.ts)
getJwtSecret(secret) ==
    IF secret = NoSecret
    THEN Throw(AppError(500, "JWT secret is not configured", "JWT_MISCONFIG"))
    ELSE Return(JsNull)

\* a signJwt whose subject is the email instead of the user id
signJwtEmailSubject(sub, email, secret, now) ==
    IF secret = NoSecret
    THEN Throw(AppError(500, "JWT secret is not configured", "JWT_MISCONFIG"))
    ELSE [kind |-> "return", error |-> NoError, value |-> JsNull,
          token |-> Token(secret, "object", JsStr(email), JsStr(email),
                          now, now + TokenLifetime)]

\* signJwt: claims.sub must be truthy and the secret configured
signJwt(sub, email, secret, now) ==
    IF sub = <<>>
    THEN Throw(AppError(500, "Invalid JWT claims", "JWT_INVALID_CLAIMS"))
    ELSE IF getJwtSecret(secret).kind = "throw" THEN getJwtSecret(secret)
    ELSE [kind |-> "return", error |-> NoError, value |-> JsNull,
          token |-> Token(secret, "object", JsStr(sub), JsStr(email),
                          now, now + TokenLifetime)]

\* a jwt.verify that does not look at the exp claim
jwtVerifyIgnoresExpiry(token, secret, now) == token.wellFormed /\ token.key = secret

\* jwt.verify of the jsonwebtoken library: the signature must match the
\* secret and the exp claim, when there is one, must lie in the future
jwtVerify(token, secret, now) ==
    /\ token.wellFormed
    /\ token.key = secret
    /\ (token.payload = "object" => now < token.exp)

Unauthorized == AppError(401, "Unauthorized", "UNAUTHORIZED")

\* a verifyJwt that tells an expired token apart from the other failures
verifyJwtTellsExpiry(token, secret, now) ==
    IF secret = NoSecret
    THEN Throw(AppError(500, "JWT secret is not configured", "JWT_MISCONFIG"))
    ELSE IF token.wellFormed /\ token.key = secret /\ token.payload = "object"
            /\ now >= token.exp
    THEN Throw(AppError(401, "Token expired", "TOKEN_EXPIRED"))
    ELSE IF ~jwtVerify(token, secret, now) THEN Throw(Unauthorized)
    ELSE IF token.payload = "string" THEN Throw(Unauthorized)
    ELSE IF token.sub.t # "string" \/ token.sub.s = <<>> THEN Throw(Unauthorized)
    ELSE [kind |-> "return", value |-> JsNull, error |-> NoError, sub |-> token.sub.s,
          email |-> IF token.email.t = "string" THEN token.email ELSE JsUndef]

\* verifyJwt (utils/jwt.ts): getJwtSecret runs before the try block; every
\* failure inside it is rethrown as 401 UNAUTHORIZED
verifyJwt(token, secret, now) ==
    IF getJwtSecret(secret).kind = "throw" THEN getJwtSecret(secret)
    ELSE IF ~jwtVerify(token, secret, now) THEN Throw(Unauthorized)
    ELSE IF token.payload = "string" THEN Throw(Unauthorized)
    ELSE IF token.sub.t # "string" \/ token.sub.s = <<>> THEN Throw(Unauthorized)
    ELSE [kind |-> "return", value |-> JsNull, error |-> NoError, sub |-> token.sub.s,
          email |-> IF token.email.t = "string" THEN token.email ELSE JsUndef]

(***************************************************************************)
(* Auth Gate                                                               *)
(***************************************************************************)
Ws == [k |-> "ws", text |-> "", tok |-> GarbageToken]

Word(text) == [k |-> "word", text |-> text, tok |-> GarbageToken]

Jwt(tok) == [k |-> "jwt", text |-> "", tok |-> tok]

NoHeader == [present |-> FALSE, pieces |-> <<>>]

Header(pieces) == [present |-> TRUE, pieces |-> pieces]

RECURSIVE TrimLeftWs(_)
TrimLeftWs(ps) == IF ps # <<>> /\ Head(ps).k = "ws" THEN TrimLeftWs(Tail(ps)) ELSE ps

RECURSIVE TrimRightWs(_)
TrimRightWs(ps) ==
    IF ps # <<>> /\ ps[Len(ps)].k = "ws"
    THEN TrimRightWs(SubSeq(ps, 1, Len(ps) - 1))
    ELSE ps

\* split(/\s+/) of a trimmed header: the maximal runs without whitespace
RECURSIVE SplitRuns(_)
SplitRuns(ps) ==
    IF ~\E i \in 1..Len(ps) : ps[i].k = "ws" THEN <<ps>>
    ELSE LET i == CHOOSE i \in 1..Len(ps) :
                      ps[i].k = "ws" /\ \A j \in 1..(i - 1) : ps[j].k # "ws"
         IN <<TakeFirst(ps, i - 1)>> \o SplitRuns(TrimLeftWs(DropFirst(ps, i)))

HeaderParts(header) == SplitRuns(TrimRightWs(TrimLeftWs(header.pieces)))

\* the token a header part denotes: a single JWT, anything else is garbage
PartToken(part) == IF Len(part) = 1 /\ part[1].k = "jwt" THEN part[1].tok ELSE GarbageToken

NoUser == [set |-> FALSE, id |-> <<>>, email |-> JsUndef]

Unauthorized401 ==
    [sent |-> TRUE, status |-> 401, json |-> TRUE, body |-> [error |-> "Unauthorized"]]

NoResp == [sent |-> FALSE, status |-> 0, json |-> FALSE, body |-> [none |-> TRUE]]

GateReject == [next |-> FALSE, user |-> NoUser, resp |-> Unauthorized401]

\* the guards of authMiddleware, in the order of the code: the header is
\* there and splits into exactly "Bearer" and a token
headerOk(header, parts) ==
    /\ header.present
    /\ header.pieces # <<>>
    /\ Len(parts) = 2
    /\ parts[1] = <<Word("Bearer")>>
    /\ parts[2] # <<>>

gateHeaderOk(header) == headerOk(header, HeaderParts(header))

gateSecretOk(secret) == secret # NoSecret

\* a gate that trusts every verified token, whatever its sub claim
gateTokenOkAnySubject(decoded, secret, now) ==
    jwtVerify(decoded, secret, now) /\ decoded.payload # "string"

\* jwt.verify succeeds, and the payload is an object with a non-empty string sub
gateTokenOk(decoded, secret, now) ==
    /\ jwtVerify(decoded, secret, now)
    /\ decoded.payload # "string"
    /\ decoded.sub.t = "string"
    /\ decoded.sub.s # <<>>

\* req.user = { id: userId, email }; next()
GateAccept(decoded) ==
    [next |-> TRUE,
     user |-> [set |-> TRUE, id |-> decoded.sub.s,
               email |-> IF decoded.email.t = "string" THEN decoded.email ELSE JsUndef],
     resp |-> NoResp]

gateDecide(decoded, secret, now) ==
    IF ~gateSecretOk(secret) THEN GateReject
    ELSE IF ~gateTokenOk(decoded, secret, now) THEN GateReject
    ELSE GateAccept(decoded)

\* authMiddleware: next() with req.user set, or 401 and nothing attached
authMiddleware(header, secret, now) ==
    IF ~gateHeaderOk(header) THEN GateReject
    ELSE gateDecide(PartToken(HeaderParts(header)[2]), secret, now)

(***************************************************************************)
(* Geo Resolver                                                            *)
(***************************************************************************)
RawFields ==
    {"network", "city", "region", "region_code", "country", "country_code",
     "continent", "continent_code", "latitude", "longitude", "timezone",
     "postal_code"}

\* a value the provider's JSON parses to: an object with fields, or not
RawObject(f) == [t |-> "object", f |-> f]

RawOther(t) == [t |-> t, f |-> [k \in RawFields |-> JsUndef]]

\* asString: a string that is not empty after trim, trimmed; else null
asString(v) == IF v.t = "string" /\ Trim(v.s) # <<>> THEN JsStr(Trim(v.s)) ELSE JsNull

\* asNumber: a finite number, or a non-blank string whose Number() is finite
asNumber(v) ==
    IF v.t = "number" /\ v.fin THEN v
    ELSE IF v.t = "string" /\ Trim(v.s) # <<>>
         THEN (IF JsNumberOfString(v.s).fin THEN JsNumberOfString(v.s) ELSE JsNull)
         ELSE JsNull

\* the GeoSnapshot built from the provider's object r
GeoSnapshot(ip, r, now) ==
    [t |-> "geo", ip |-> ip,
     network |-> asString(r.f["network"]),
     city |-> asString(r.f["city"]),
     region |-> asString(r.f["region"]),
     regionCode |-> asString(r.f["region_code"]),
     country |-> asString(r.f["country"]),
     countryCode |-> asString(r.f["country_code"]),
     continent |-> asString(r.f["continent"]),
     continentCode |-> asString(r.f["continent_code"]),
     latitude |-> asNumber(r.f["latitude"]),
     longitude |-> asNumber(r.f["longitude"]),
     timezone |-> asString(r.f["timezone"]),
     postalCode |-> asString(r.f["postal_code"]),
     source |-> "ipinfo", resolvedAt |-> now]

\* what the provider does with a request that was sent
NetError == [k |-> "network_error", raw |-> RawOther("undefined")]

NotOk == [k |-> "status_not_ok", raw |-> RawOther("undefined")]

BadJson == [k |-> "invalid_json", raw |-> RawOther("undefined")]

Json(raw) == [k |-> "json", raw |-> raw]

\* lookup up to its fetch: getToken throws when IPINFO_TOKEN is not set
lookupBegin(ipinfoToken) ==
    IF ~ipinfoToken
    THEN Throw([type |-> "Error", statusCode |-> 0,
                message |-> "IPINFO_TOKEN is not set", code |-> ""])
    ELSE Return(JsNull)

\* lookup after its fetch: throws on a network error, a non-OK status or a
\* body that is not JSON; otherwise returns the parsed value
lookupEnd(outcome) ==
    IF outcome.k = "json"
    THEN [kind |-> "return", value |-> JsNull, error |-> NoError, raw |-> outcome.raw]
    ELSE Throw([type |-> "Error", statusCode |-> 0, message |-> outcome.k, code |-> ""])

\* only the first early return of resolve: !ip
skipsLookupNullOnly(ip) == ip.t # "string" \/ ip.s = <<>>

\* the early returns of resolve: !ip, then isPrivateIp(ip)
skipsLookup(ip) ==
    \/ ip.t # "string"
    \/ ip.s = <<>>
    \/ isPrivateIp(ip.s)

\* resolve without its try/catch: an exception of lookup reaches the caller
resolveNoCatch(res) == res

\* the catch block of resolve: any exception becomes null
resolveCatch(res) == IF res.kind = "throw" THEN Return(JsNull) ELSE res

\* resolve up to the await of lookup: [pending, result, calls]
resolveBegin(ip, ipinfoToken) ==
    IF skipsLookup(ip)
    THEN [pending |-> FALSE, result |-> Return(JsNull), calls |-> 0]
    ELSE IF lookupBegin(ipinfoToken).kind = "throw"
    THEN [pending |-> FALSE, result |-> resolveCatch(lookupBegin(ipinfoToken)), calls |-> 1]
    ELSE [pending |-> TRUE, result |-> Return(JsNull), calls |-> 1]

\* resolve after the await of lookup
resolveEnd(ip, outcome, now) ==
    LET raw == lookupEnd(outcome)
    IN resolveCatch(
         IF raw.kind = "throw" THEN raw
         ELSE IF raw.raw.t # "object" THEN Return(JsNull)
         ELSE Return(GeoSnapshot(ip.s, raw.raw, now)))

(***************************************************************************)
(* Stores                                                                  *)
(***************************************************************************)
\* ids the store generates, in order of creation
IdText(n) == <<"u", Digits[n + 1]>>

StoreError == [type |-> "Error", statusCode |-> 0, message |-> "store unavailable", code |-> ""]

\* Prisma's error for a violated unique index
UniqueViolation ==
    [type |-> "PrismaClientKnownRequestError", statusCode |-> 0,
     message |-> "Unique constraint failed on the fields: (email)", code |-> "P2002"]

ConstraintViolation ==
    [type |-> "PrismaClientKnownRequestError", statusCode |-> 0,
     message |-> "constraint failed", code |-> "P2011"]

NoRow == [id |-> <<>>, email |-> <<>>, passwordHash |-> NoHash]

\* userRepository.findByEmail: the row with exactly this email, or none
findByEmail(rows, email) ==
    IF \E i \in 1..Len(rows) : rows[i].email = email
    THEN rows[CHOOSE i \in 1..Len(rows) : rows[i].email = email]
    ELSE NoRow

\* userRepository.create under the unique index users_email_key
userCreate(rows, email, passwordHash) ==
    IF \E i \in 1..Len(rows) : rows[i].email = email
    THEN [kind |-> "throw", error |-> UniqueViolation, rows |-> rows, row |-> NoRow]
    ELSE LET row == [id |-> IdText(Len(rows) + 1), email |-> email,
                     passwordHash |-> passwordHash]
         IN [kind |-> "return", error |-> NoError, rows |-> Append(rows, row), row |-> row]

\* ids of the history rows, in order of creation
HistIdText(n) == <<"h", Digits[n + 1]>>

\* a createSearchHistory that stores an empty snapshot whatever it is given
createSearchHistoryEmptyGeo(hist, rows, nextHistoryId, userId, ip, geo, now) ==
    [kind |-> "return", error |-> NoError,
     hist |-> Append(hist, [id |-> HistIdText(nextHistoryId), userId |-> userId, ip |-> ip,
                            geo |-> JsStr(<<>>), createdAt |-> now])]

\* historyRepo.createSearchHistory: geo null is sent as an absent field, the
\* column is NOT NULL and userId references users(id)
createSearchHistory(hist, rows, nextHistoryId, userId, ip, geo, now) ==
    IF geo.t = "null" \/ ~\E i \in 1..Len(rows) : rows[i].id = userId
    THEN [kind |-> "throw", error |-> ConstraintViolation, hist |-> hist]
    ELSE [kind |-> "return", error |-> NoError,
          hist |-> Append(hist, [id |-> HistIdText(nextHistoryId), userId |-> userId, ip |-> ip,
                                 geo |-> geo, createdAt |-> now])]

MaxPageSize == 100

DefaultPageSize == 50

\* a controller for which limit=0 means no limit
limitOfZeroIsUnset(limitRaw) ==
    IF limitRaw.t = "string" /\ ~NumberIsNaN(JsNumberOfString(limitRaw.s))
         /\ JsNumberOfString(limitRaw.s) # JsNum(0)
    THEN MathMin(JsNumberOfString(limitRaw.s), JsNum(MaxPageSize))
    ELSE JsUndef

\* listSearchHistoryController: req.query.limit to the limit it passes on
limitOf(limitRaw) ==
    IF limitRaw.t = "string" /\ ~NumberIsNaN(JsNumberOfString(limitRaw.s))
    THEN MathMin(JsNumberOfString(limitRaw.s), JsNum(MaxPageSize))
    ELSE JsUndef

\* a take without the lower clamp
takeOfNoFloor(limit) ==
    IF limit.t = "number" /\ limit.fin
    THEN MathMin(limit, JsNum(MaxPageSize)).n
    ELSE DefaultPageSize

\* listSearchHistories: the take it asks the store for
takeOf(limit) ==
    IF limit.t = "number" /\ limit.fin
    THEN MathMax(JsNum(1), MathMin(limit, JsNum(MaxPageSize))).n
    ELSE DefaultPageSize

\* select: { id, ip, geo, createdAt }
Selected(row) == [id |-> row.id, ip |-> row.ip, geo |-> row.geo, createdAt |-> row.createdAt]

\* where: { userId }
OwnedBy(hist, userId) == {i \in 1..Len(hist) : hist[i].userId = userId}

\* orderBy: { createdAt: "desc" }: the orders of the rows idx the store may
\* answer with; rows with equal createdAt come in any order
NewestFirst(hist, idx) ==
    {f \in [1..Cardinality(idx) -> idx] :
        /\ \A j, k \in 1..Cardinality(idx) : j # k => f[j] # f[k]
        /\ \A j, k \in 1..Cardinality(idx) :
               j < k => hist[f[j]].createdAt >= hist[f[k]].createdAt}

\* the first take rows of an answer
Page(hist, f, take) ==
    [j \in 1..(IF Len(f) < take THEN Len(f) ELSE take) |-> Selected(hist[f[j]])]

\* a listing that forgets the where clause
listSearchHistoriesAllUsers(hist, userId, limit) ==
    {Page(hist, f, takeOf(limit)) : f \in NewestFirst(hist, 1..Len(hist))}

\* historyRepo.listSearchHistories: the answers findMany may give
listSearchHistories(hist, userId, limit) ==
    {Page(hist, f, takeOf(limit)) : f \in NewestFirst(hist, OwnedBy(hist, userId))}

\* the ids of a validated request body
IdStrings(ids) == {ids[i].s : i \in 1..Len(ids)}

\* where: { userId, id: { in: ids } }
Matches(row, userId, ids) == row.userId = userId /\ row.id \in IdStrings(ids)

\* the rows a deleteMany leaves
Remaining(hist, userId, ids) ==
    LET keep(row) == ~Matches(row, userId, ids) IN SelectSeq(hist, keep)

\* a where clause without the owner
RemainingAnyOwner(hist, userId, ids) ==
    LET keep(row) == row.id \notin IdStrings(ids) IN SelectSeq(hist, keep)

\* a deleteMany that reports the count and leaves the rows
DeletedKeepsRows(hist, left) == [hist |-> hist, count |-> Len(hist) - Len(left), dbCalls |-> 1]

\* prisma.searchHistory.deleteMany: the rows left and result.count
Deleted(hist, left) == [hist |-> left, count |-> Len(hist) - Len(left), dbCalls |-> 1]

\* a repository without the owner in its where clause
deleteSearchHistoriesAnyOwner(hist, userId, ids) ==
    IF Len(ids) = 0 THEN [hist |-> hist, count |-> 0, dbCalls |-> 0]
    ELSE Deleted(hist, RemainingAnyOwner(hist, userId, ids))

\* historyRepo.deleteSearchHistories
deleteSearchHistories(hist, userId, ids) ==
    IF Len(ids) = 0 THEN [hist |-> hist, count |-> 0, dbCalls |-> 0]
    ELSE Deleted(hist, Remaining(hist, userId, ids))

\* the outcome of a call of the repository by the service
ViaRepo(d) == [hist |-> d.hist, count |-> d.count, dbCalls |-> d.dbCalls, repoCalls |-> 1]

\* a service that always calls the repository
deleteManyAlwaysCalls(hist, userId, ids) == ViaRepo(deleteSearchHistories(hist, userId, ids))

\* a service for which an empty id list means every row of the user
deleteManyEmptyMeansAll(hist, userId, ids) ==
    IF Len(ids) = 0
    THEN ViaRepo(Deleted(hist, LET keep(row) == row.userId # userId IN SelectSeq(hist, keep)))
    ELSE ViaRepo(deleteSearchHistories(hist, userId, ids))

\* historyService.deleteMany
deleteMany(hist, userId, ids) ==
    IF Len(ids) = 0 THEN [hist |-> hist, count |-> 0, dbCalls |-> 0, repoCalls |-> 0]
    ELSE ViaRepo(deleteSearchHistories(hist, userId, ids))

\* req.body.ids: an array of values, or something else
NoIds == [isArray |-> FALSE, items |-> <<>>]

Ids(items) == [isArray |-> TRUE, items |-> items]

\* Array.isArray(ids) && every id is a string
validIds(ids) == ids.isArray /\ \A i \in 1..Len(ids.items) : ids.items[i].t = "string"

(***************************************************************************)
(* The boundary of the assembled application                               *)
(***************************************************************************)
\* app.ts registers the routers and no error handler: an error passed to
\* next(err) is answered by the built-in handler of Express, whose status is the
\* error's statusCode when that is 4xx or 5xx and 500 otherwise, and whose
\* body is not the JSON payload of errorMiddleware
appErrorBoundary(err) ==
    [sent |-> TRUE,
     status |-> IF err.statusCode \in 400..599 THEN err.statusCode ELSE 500,
     json |-> FALSE, body |-> [html |-> TRUE]]

Ok(status, body) == [sent |-> TRUE, status |-> status, json |-> TRUE, body |-> body]


(***************************************************************************)
(* Inputs the requests are drawn from                                      *)
(***************************************************************************)
EmailA == <<"a", "@", "b", ".", "c">>

EmailAVariant == <<" ", "A", "@", "b", ".", "c">>

EmailD == <<"d", "@", "b", ".", "c">>

EmailInputs == {JsStr(EmailA), JsStr(EmailAVariant), JsStr(EmailD), JsStr(<<"a", "b", ".", "c">>)}

PasswordA == <<"p", "a", "s", "s", "w", "o", "r", "d">>

PasswordB == <<"p", "a", "s", "s", "w", "0", "r", "d">>

PasswordInputs == {JsStr(PasswordA), JsStr(PasswordB), JsStr(<<"s", "h", "o", "r", "t">>)}

IpPublic == <<"8", ".", "8", ".", "8", ".", "8">>

IpPrivateV4 == <<"1", "0", ".", "0", ".", "0", ".", "5">>

IpLoopbackV6 == <<":", ":", "1">>

IpPublicV6Bracketed == <<"[", "2", "0", "0", "1", ":", ":", "1", "]">>

IpInputs ==
    {JsStr(IpPublic), JsStr(IpPrivateV4), JsStr(IpLoopbackV6), JsStr(IpPublicV6Bracketed),
     JsStr(<<"9", "9", "9", ".", "1", ".", "1", ".", "1">>), JsUndef}

\* what getClientIp reads from a request: the x-forwarded-for and x-real-ip
\* headers, req.ip and the address of the socket
ClientAddr(xff, realIp, ip, sock) == [xff |-> xff, realIp |-> realIp, ip |-> ip, sock |-> sock]

ClientAddrInputs ==
    {ClientAddr(JsStr(IpPublic \o <<",", " ">> \o IpPrivateV4), JsUndef, JsStr(IpPrivateV4),
                JsStr(IpPrivateV4)),
     ClientAddr(JsUndef, JsUndef, JsStr(PrefixMappedV4 \o <<"1", "2", "7", ".", "0", ".", "0", ".", "1">>),
                JsUndef),
     ClientAddr(JsStr(<<" ", ",", "x">>), JsStr(IpPrivateV4), JsUndef, JsUndef),
     ClientAddr(JsStr(<<"x">>), JsUndef, JsUndef, JsUndef),
     ClientAddr(JsUndef, JsUndef, JsUndef, JsUndef)}

StringFields(v) == [k \in RawFields |-> v]

RawFull ==
    RawObject([StringFields(JsStr(<<"U", "S">>)) EXCEPT
                  !["latitude"] = JsNum(37), !["longitude"] = JsStr(<<"1", "2", "2">>)])

RawMalformed ==
    RawObject([StringFields(JsStr(<<" ", " ">>)) EXCEPT
                  !["city"] = JsNum(5), !["country"] = JsStr(<<" ", "U", "S", " ">>),
                  !["latitude"] = JsNaN, !["longitude"] = JsStr(<<"x">>),
                  !["timezone"] = JsNull])

RawPayloads == {RawFull, RawMalformed, RawObject(StringFields(JsUndef)), RawOther("null"),
                RawOther("string")}

LookupOutcomes == {NetError, NotOk, BadJson} \cup {Json(raw) : raw \in RawPayloads}

ServerSecret == "k1"

\* tokens a client can present without having been issued them here
CraftedTokens ==
    {Token("k2", "object", JsStr(IdText(1)), JsUndef, 0, TokenLifetime),
     Token(ServerSecret, "object", JsStr(<<>>), JsUndef, 0, TokenLifetime),
     Token(ServerSecret, "object", JsNum(7), JsUndef, 0, TokenLifetime),
     Token(ServerSecret, "string", JsUndef, JsUndef, 0, 0),
     Token(ServerSecret, "object", JsStr(IdText(9)), JsNum(1), 0, TokenLifetime)}

\* the header a well-behaved client sends with a token
Bearer(tok) == Header(<<Word("Bearer"), Ws, Jwt(tok)>>)

\* headers that are not "Bearer <token>", and one with extra whitespace
ShapedHeaders(tok) ==
    {NoHeader, Header(<<>>), Header(<<Ws>>), Header(<<Word("Bearer")>>),
     Header(<<Word("Bearer"), Ws, Word("abc")>>),
     Header(<<Ws, Word("Bearer"), Ws, Ws, Jwt(tok), Ws>>),
     Header(<<Word("bearer"), Ws, Jwt(tok)>>),
     Header(<<Word("Bearer"), Ws, Jwt(tok), Ws, Word("x")>>),
     Header(<<Word("Bearer"), Jwt(tok)>>)}

(***************************************************************************)
(* State                                                                   *)
(***************************************************************************)
\* requests in flight at the same time
Slots == {"r1", "r2"}

\* requests started in one behaviour
MaxRequests == 2

\* the clock stops at MaxTime
MaxTime == 2

VARIABLES
    secret,        \* process.env.JWT_SECRET
    ipinfoToken,   \* whether process.env.IPINFO_TOKEN is set
    users,         \* table users, in order of creation
    histories,     \* table search_histories, in order of creation
    nextHistoryId, \* number of the next history row
    now,           \* the clock
    req,           \* per slot: the request being handled
    issued,        \* the tokens handed out: [via, email, token]
    started,       \* number of requests started
    call           \* the last direct call of a utility function, with its result

vars == <<secret, ipinfoToken, users, histories, nextHistoryId, now, req, issued, started, call>>

config == <<secret, ipinfoToken>>

Idle ==
    [route |-> "none", pc |-> "idle", at |-> 0, header |-> NoHeader,
     email |-> JsUndef, password |-> JsUndef, ipRaw |-> JsUndef,
     user |-> NoUser, handler |-> FALSE,
     cred |-> [email |-> <<>>, password |-> <<>>],
     found |-> NoRow, hash |-> NoHash,
     ip |-> JsNull, calls |-> 0, resolved |-> FALSE, geo |-> Return(JsNull),
     persist |-> "none", persistErr |-> NoError,
     err |-> NoError, resp |-> NoResp, token |-> GarbageToken,
     limitRaw |-> JsUndef, take |-> 0, items |-> <<>>,
     ids |-> NoIds, deleted |-> 0, repoCalls |-> 0, dbCalls |-> 0]

\* no utility function has been called directly
NoCall == [fn |-> "none"]

ClientTokens == CraftedTokens \cup {i.token : i \in issued}

\* a token that verifies when the secret is configured and time is 0
SampleToken == Token(ServerSecret, "object", JsStr(IdText(1)), JsStr(EmailA), 0, TokenLifetime)

HeaderInputs == ShapedHeaders(SampleToken) \cup {Bearer(t) : t \in ClientTokens}

Init ==
    /\ secret \in {NoSecret, ServerSecret}
    /\ ipinfoToken \in BOOLEAN
    /\ users = <<>>
    /\ histories = <<>>
    /\ nextHistoryId = 1
    /\ now = 0
    /\ req = [r \in Slots |-> Idle]
    /\ issued = {}
    /\ started = 0
    /\ call = NoCall

\* the request of slot r becomes q
Set(r, q) == req' = [req EXCEPT ![r] = q]

\* a handler ends by passing err to next(err)
Fail(q, err) == [q EXCEPT !.pc = "done", !.err = err, !.resp = appErrorBoundary(err)]

\* a handler ends by sending a JSON response
Respond(q, status, body) == [q EXCEPT !.pc = "done", !.resp = Ok(status, body)]

\* a request may start in a free slot; the slots are interchangeable, so the
\* second one is used only while the first is busy
CanStart(r) ==
    /\ req[r].pc = "idle"
    /\ started < MaxRequests
    /\ (r = "r2" => req["r1"].pc # "idle")


(***************************************************************************)
(* POST /register                                                          *)
(***************************************************************************)
\* registerController up to the first await of authService.register
StartRegister(r) ==
    /\ CanStart(r)
    /\ \E e \in EmailInputs, p \in PasswordInputs :
         LET q == [Idle EXCEPT !.route = "register", !.at = now, !.email = e, !.password = p]
             parsed == parseAuthBody(e, p)
         IN IF parsed.kind = "throw"
            THEN Set(r, Fail(q, parsed.error))
            ELSE Set(r, [q EXCEPT !.pc = "reg_find", !.handler = TRUE,
                                  !.cred = [email |-> parsed.email,
                                            password |-> parsed.password]])
    /\ started' = started + 1
    /\ UNCHANGED <<config, call, users, histories, nextHistoryId, now, issued>>

\* await userRepository.findByEmail(email); 409 when a row exists
RegFind(r) ==
    /\ req[r].pc = "reg_find"
    /\ \E up \in BOOLEAN :
         LET existing == findByEmail(users, req[r].cred.email)
         IN IF ~up THEN Set(r, Fail(req[r], StoreError))
            ELSE IF existing # NoRow
            THEN Set(r, Fail([req[r] EXCEPT !.found = existing],
                             AppError(409, "Email already registered", "EMAIL_EXISTS")))
            ELSE Set(r, [req[r] EXCEPT !.pc = "reg_hash"])
    /\ UNCHANGED <<config, call, users, histories, nextHistoryId, now, issued, started>>

\* await hashPassword(password)
RegHash(r) ==
    /\ req[r].pc = "reg_hash"
    /\ Set(r, [req[r] EXCEPT !.pc = "reg_create", !.hash = hashPassword(req[r].cred.password)])
    /\ UNCHANGED <<config, call, users, histories, nextHistoryId, now, issued, started>>

\* await userRepository.create(...), then signJwt and 201 {token}
RegCreate(r) ==
    /\ req[r].pc = "reg_create"
    /\ \E up \in BOOLEAN :
         LET created == userCreate(users, req[r].cred.email, req[r].hash)
             signed == signJwt(created.row.id, created.row.email, secret, now)
         IN IF ~up
            THEN Set(r, Fail(req[r], StoreError)) /\ UNCHANGED <<users, issued>>
            ELSE IF created.kind = "throw"
            THEN Set(r, Fail(req[r], created.error)) /\ UNCHANGED <<users, issued>>
            ELSE /\ users' = created.rows
                 /\ IF signed.kind = "throw"
                    THEN Set(r, Fail([req[r] EXCEPT !.found = created.row], signed.error))
                         /\ UNCHANGED issued
                    ELSE /\ Set(r, Respond([req[r] EXCEPT !.found = created.row,
                                                          !.token = signed.token],
                                           201, [token |-> signed.token]))
                         /\ issued' = issued \cup {[via |-> "register",
                                                    email |-> created.row.email,
                                                    token |-> signed.token]}
    /\ UNCHANGED <<config, call, histories, nextHistoryId, now, started>>

(***************************************************************************)
(* POST /login                                                             *)
(***************************************************************************)
\* the error of a failed login, for an unknown email and a wrong password
invalidCredentials == AppError(401, "Invalid credentials", "INVALID_CREDENTIALS")

\* loginController up to the first await of authService.login
StartLogin(r) ==
    /\ CanStart(r)
    /\ \E e \in EmailInputs, p \in PasswordInputs :
         LET q == [Idle EXCEPT !.route = "login", !.at = now, !.email = e, !.password = p]
             parsed == parseAuthBody(e, p)
         IN IF parsed.kind = "throw"
            THEN Set(r, Fail(q, parsed.error))
            ELSE Set(r, [q EXCEPT !.pc = "login_find", !.handler = TRUE,
                                  !.cred = [email |-> parsed.email,
                                            password |-> parsed.password]])
    /\ started' = started + 1
    /\ UNCHANGED <<config, call, users, histories, nextHistoryId, now, issued>>

\* a login that tells an unknown email apart from a wrong password
loginUserNotFound(user) ==
    IF user = NoRow THEN Throw(AppError(404, "User not found", "USER_NOT_FOUND"))
    ELSE Return(JsNull)

\* the error login throws when no row has the email
loginUnknownEmail(user) == IF user = NoRow THEN Throw(invalidCredentials) ELSE Return(JsNull)

\* the error login throws when the password does not match the hash
loginWrongPassword(ok) == IF ~ok THEN Throw(invalidCredentials) ELSE Return(JsNull)

\* await userRepository.findByEmail(email)
LoginFind(r) ==
    /\ req[r].pc = "login_find"
    /\ \E up \in BOOLEAN :
         LET user == findByEmail(users, req[r].cred.email)
         IN IF ~up THEN Set(r, Fail(req[r], StoreError))
            ELSE IF loginUnknownEmail(user).kind = "throw"
            THEN Set(r, Fail(req[r], loginUnknownEmail(user).error))
            ELSE Set(r, [req[r] EXCEPT !.pc = "login_verify", !.found = user])
    /\ UNCHANGED <<config, call, users, histories, nextHistoryId, now, issued, started>>

\* await verifyPassword(password, user.passwordHash), then signJwt and 200 {token}
LoginVerify(r) ==
    /\ req[r].pc = "login_verify"
    /\ LET ok == verifyPassword(req[r].cred.password, req[r].found.passwordHash)
           signed == signJwt(req[r].found.id, req[r].found.email, secret, now)
       IN IF loginWrongPassword(ok).kind = "throw"
          THEN Set(r, Fail(req[r], loginWrongPassword(ok).error)) /\ UNCHANGED issued
          ELSE IF signed.kind = "throw"
          THEN Set(r, Fail(req[r], signed.error)) /\ UNCHANGED issued
          ELSE /\ Set(r, Respond([req[r] EXCEPT !.token = signed.token],
                                 200, [token |-> signed.token]))
               /\ issued' = issued \cup {[via |-> "login", email |-> req[r].found.email,
                                          token |-> signed.token]}
    /\ UNCHANGED <<config, call, users, histories, nextHistoryId, now, started>>


(***************************************************************************)
(* GET /geo/:ip, GET /geo/self, POST /history/search                       *)
(***************************************************************************)
\* the request after authMiddleware rejected it: 401, nothing attached
Rejected(q, gate) == [q EXCEPT !.pc = "done", !.resp = gate.resp, !.user = gate.user]

\* what follows the return of resolve: the geo controllers answer 200 {geo};
\* searchAndRecord goes on to await historyRepo.createSearchHistory
AfterResolve(q, res) ==
    LET q2 == [q EXCEPT !.resolved = TRUE, !.geo = res]
    IN IF res.kind = "throw" THEN Fail(q2, res.error)
       ELSE IF q.route = "history_search"
       THEN [q2 EXCEPT !.pc = "persist_wait", !.persist = "pending"]
       ELSE Respond(q2, 200, [geo |-> res.value])

\* the call of geoService.resolve(ip) up to its await of the provider
BeginResolve(q, ip) ==
    LET rb == resolveBegin(ip, ipinfoToken)
        q2 == [q EXCEPT !.ip = ip, !.calls = rb.calls]
    IN IF rb.pending THEN [q2 EXCEPT !.pc = "lookup_wait"] ELSE AfterResolve(q2, rb.result)

\* authMiddleware, then geoByIpController up to the await of the provider
StartGeoByIp(r) ==
    /\ CanStart(r)
    /\ \E h \in HeaderInputs :
         LET gate == authMiddleware(h, secret, now)
             q == [Idle EXCEPT !.route = "geo_ip", !.at = now, !.header = h]
         IN IF ~gate.next THEN Set(r, Rejected(q, gate))
            ELSE \E v \in IpInputs :
                   LET q1 == [q EXCEPT !.user = gate.user, !.handler = TRUE, !.ipRaw = v]
                       a == assertIp(v)
                   IN IF a.kind = "throw" THEN Set(r, Fail(q1, a.error))
                      ELSE Set(r, BeginResolve(q1, a.value))
    /\ started' = started + 1
    /\ UNCHANGED <<config, call, users, histories, nextHistoryId, now, issued>>

\* authMiddleware, then geoSelfController up to the await of the provider
StartGeoSelf(r) ==
    /\ CanStart(r)
    /\ \E h \in HeaderInputs :
         LET gate == authMiddleware(h, secret, now)
             q == [Idle EXCEPT !.route = "geo_self", !.at = now, !.header = h]
         IN IF ~gate.next THEN Set(r, Rejected(q, gate))
            ELSE \E c \in ClientAddrInputs :
                   Set(r, BeginResolve([q EXCEPT !.user = gate.user, !.handler = TRUE,
                                                 !.ipRaw = c.xff],
                                       getClientIp(c)))
    /\ started' = started + 1
    /\ UNCHANGED <<config, call, users, histories, nextHistoryId, now, issued>>

\* authMiddleware, then createSearchHistoryController and searchAndRecord up
\* to the await of the provider
StartHistorySearch(r) ==
    /\ CanStart(r)
    /\ \E h \in HeaderInputs :
         LET gate == authMiddleware(h, secret, now)
             q == [Idle EXCEPT !.route = "history_search", !.at = now, !.header = h]
         IN IF ~gate.next THEN Set(r, Rejected(q, gate))
            ELSE \E v \in IpInputs :
                   LET q1 == [q EXCEPT !.user = gate.user, !.handler = TRUE, !.ipRaw = v]
                       a == assertIp(v)
                   IN IF a.kind = "throw" THEN Set(r, Fail(q1, a.error))
                      ELSE Set(r, BeginResolve(q1, a.value))
    /\ started' = started + 1
    /\ UNCHANGED <<config, call, users, histories, nextHistoryId, now, issued>>

\* the provider answers the fetch of lookup; resolve runs to its return
ProviderRespond(r) ==
    /\ req[r].pc = "lookup_wait"
    /\ \E o \in LookupOutcomes :
         Set(r, AfterResolve(req[r], resolveEnd(req[r].ip, o, now)))
    /\ UNCHANGED <<config, call, users, histories, nextHistoryId, now, issued, started>>

\* searchAndRecord without its try/catch: the failure of the store propagates
persistNoCatch(c) == c

\* the try/catch of searchAndRecord around createSearchHistory
persistCatch(c) == [kind |-> "return", error |-> NoError]

\* the history store answers createSearchHistory; searchAndRecord returns geo
\* and the controller answers 200 {geo}
HistoryStoreRespond(r) ==
    /\ req[r].pc = "persist_wait"
    /\ \E up \in BOOLEAN :
         LET c == IF up
                  THEN createSearchHistory(histories, users, nextHistoryId, req[r].user.id,
                                           req[r].ip.s, req[r].geo.value, now)
                  ELSE [kind |-> "throw", error |-> StoreError, hist |-> histories]
             out == persistCatch([kind |-> c.kind, error |-> c.error])
             q == [req[r] EXCEPT !.persist = IF c.kind = "throw" THEN "failed" ELSE "stored",
                                 !.persistErr = c.error]
         IN /\ histories' = c.hist
            /\ nextHistoryId' = IF c.kind = "throw" THEN nextHistoryId ELSE nextHistoryId + 1
            /\ IF out.kind = "throw"
               THEN Set(r, Fail(q, out.error))
               ELSE Set(r, Respond(q, 200, [geo |-> req[r].geo.value]))
    /\ UNCHANGED <<config, call, users, now, issued, started>>

(***************************************************************************)
(* GET /history, DELETE /history                                           *)
(***************************************************************************)
\* req.query.limit: absent, a text, or repeated (an array)
LimitInputs ==
    {JsUndef, [t |-> "object", s |-> <<>>, n |-> 0, fin |-> FALSE],
     JsStr(<<"1", "0", "0", "0">>), JsStr(<<"0">>), JsStr(<<>>), JsStr(<<"2">>),
     JsStr(<<"a", "b", "c">>), JsStr(<<"-", "5">>),
     JsStr(InfinityText), JsStr(<<"-">> \o InfinityText)}

\* req.body.ids
IdsInputs ==
    {NoIds, Ids(<<>>), Ids(<<JsStr(HistIdText(1))>>), Ids(<<JsStr(HistIdText(2))>>),
     Ids(<<JsStr(HistIdText(1)), JsStr(HistIdText(2)), JsStr(HistIdText(3))>>),
     Ids(<<JsStr(HistIdText(1)), JsStr(HistIdText(1))>>),
     Ids(<<JsStr(HistIdText(1)), JsNum(2)>>),
     Ids(<<JsStr(HistIdText(9))>>)}

\* authMiddleware, then listSearchHistoryController up to the await of the
\* store
StartHistoryList(r) ==
    /\ CanStart(r)
    /\ \E h \in HeaderInputs :
         LET gate == authMiddleware(h, secret, now)
             q == [Idle EXCEPT !.route = "history_list", !.at = now, !.header = h]
         IN IF ~gate.next THEN Set(r, Rejected(q, gate))
            ELSE \E l \in LimitInputs :
                   Set(r, [q EXCEPT !.user = gate.user, !.handler = TRUE, !.limitRaw = l,
                                    !.take = takeOf(limitOf(l)), !.pc = "list_wait"])
    /\ started' = started + 1
    /\ UNCHANGED <<config, call, users, histories, nextHistoryId, now, issued>>

\* the store answers findMany; the controller answers 200 {items}
HistoryListRespond(r) ==
    /\ req[r].pc = "list_wait"
    /\ \E up \in BOOLEAN :
         IF ~up THEN Set(r, Fail(req[r], StoreError))
         ELSE \E items \in listSearchHistories(histories, req[r].user.id,
                                              limitOf(req[r].limitRaw)) :
                Set(r, Respond([req[r] EXCEPT !.items = items], 200, [items |-> items]))
    /\ UNCHANGED <<config, call, users, histories, nextHistoryId, now, issued, started>>

\* deleteSearchHistoriesController after validation, up to the await of the
\* store: deleteMany may return at once
BeginDelete(q, d) ==
    IF d.dbCalls = 0
    THEN Respond([q EXCEPT !.repoCalls = d.repoCalls, !.deleted = d.count],
                 200, [deleted |-> d.count])
    ELSE [q EXCEPT !.repoCalls = d.repoCalls, !.dbCalls = d.dbCalls, !.pc = "delete_wait"]

\* authMiddleware, then deleteSearchHistoriesController up to the await of
\* the store
StartHistoryDelete(r) ==
    /\ CanStart(r)
    /\ \E h \in HeaderInputs :
         LET gate == authMiddleware(h, secret, now)
             q == [Idle EXCEPT !.route = "history_delete", !.at = now, !.header = h]
         IN IF ~gate.next THEN Set(r, Rejected(q, gate))
            ELSE \E ids \in IdsInputs :
                   LET q1 == [q EXCEPT !.user = gate.user, !.handler = TRUE, !.ids = ids]
                   IN IF ~validIds(ids)
                      THEN Set(r, Respond(q1, 400, [error |-> "Invalid ids",
                                                    code |-> "VALIDATION_ERROR"]))
                      ELSE Set(r, BeginDelete(q1, deleteMany(histories, gate.user.id,
                                                             ids.items)))
    /\ started' = started + 1
    /\ UNCHANGED <<config, call, users, histories, nextHistoryId, now, issued>>

\* the store has run deleteMany: the rows are gone and 200 {deleted} is sent
EndDelete(r, d) ==
    /\ histories' = d.hist
    /\ Set(r, Respond([req[r] EXCEPT !.deleted = d.count], 200, [deleted |-> d.count]))

\* the store answers deleteMany
HistoryDeleteRespond(r) ==
    /\ req[r].pc = "delete_wait"
    /\ \E up \in BOOLEAN :
         IF ~up THEN Set(r, Fail(req[r], StoreError)) /\ UNCHANGED histories
         ELSE EndDelete(r, deleteMany(histories, req[r].user.id, req[r].ids.items))
    /\ UNCHANGED <<config, call, users, nextHistoryId, now, issued, started>>

\* the steps of the list and delete requests of slot r
HistoryStep(r) ==
    \/ StartHistoryList(r)
    \/ HistoryListRespond(r)
    \/ StartHistoryDelete(r)
    \/ HistoryDeleteRespond(r)

(***************************************************************************)
(* Environment and specification                                           *)
(***************************************************************************)
\* the response has been sent; the slot is free for the next request
Finish(r) ==
    /\ req[r].pc = "done"
    /\ Set(r, Idle)
    /\ UNCHANGED <<config, call, users, histories, nextHistoryId, now, issued, started>>

Tick ==
    /\ now < MaxTime
    /\ now' = now + 1
    /\ UNCHANGED <<config, call, users, histories, nextHistoryId, req, issued, started>>

\* the steps of the register and login requests of slot r
AuthStep(r) ==
    \/ StartRegister(r)
    \/ RegFind(r)
    \/ RegHash(r)
    \/ RegCreate(r)
    \/ StartLogin(r)
    \/ LoginFind(r)
    \/ LoginVerify(r)

\* the steps of the geo and history requests of slot r
GeoStep(r) ==
    \/ StartGeoByIp(r)
    \/ StartGeoSelf(r)
    \/ StartHistorySearch(r)
    \/ ProviderRespond(r)
    \/ HistoryStoreRespond(r)

\* Spec: the whole API, one request at a time
Next ==
    \/ AuthStep("r1")
    \/ GeoStep("r1")
    \/ Finish("r1")
    \/ Tick

Spec == Init /\ [][Next]_vars


\* RaceSpec: register and login requests, two of them in flight at a time
NextRace ==
    \/ \E r \in Slots : AuthStep(r)
    \/ \E r \in Slots : Finish(r)

RaceSpec == Init /\ [][NextRace]_vars


\* LiveSpec: geo and history requests of a registered user holding a token,
\* with the environment an operator has configured.  The event loop runs
\* every continuation that is ready (Finish); nothing obliges the provider or
\* the history store to answer.
RegisteredUser == [id |-> IdText(1), email |-> EmailA, passwordHash |-> hashPassword(PasswordA)]

InitLive ==
    /\ secret = ServerSecret
    /\ ipinfoToken = TRUE
    /\ users = <<RegisteredUser>>
    /\ histories = <<>>
    /\ nextHistoryId = 1
    /\ now = 0
    /\ req = [r \in Slots |-> Idle]
    /\ issued = {[via |-> "register", email |-> EmailA, token |-> SampleToken]}
    /\ started = 0
    /\ call = NoCall

NextLive ==
    \/ GeoStep("r1")
    \/ Finish("r1")
    \/ Tick

LiveSpec == InitLive /\ [][NextLive]_vars /\ WF_vars(Finish("r1"))


\* HistorySpec: search, list and delete requests of two registered users
\* holding tokens, over a history store that earlier searches have filled,
\* within the lifetime of the tokens
OtherUser == [id |-> IdText(2), email |-> EmailD, passwordHash |-> hashPassword(PasswordB)]

OtherToken == Token(ServerSecret, "object", JsStr(IdText(2)), JsStr(EmailD), 0, TokenLifetime)

\* the row number n, written for owner at time t by an earlier search
StoredRow(n, owner, t) ==
    [id |-> HistIdText(n), userId |-> owner, ip |-> IpPublic,
     geo |-> GeoSnapshot(IpPublic, RawFull, t), createdAt |-> t]

\* contents of the history store: creation times never decrease with the id
HistoryStores ==
    {<<>>,
     <<StoredRow(1, IdText(1), 0 - 2)>>,
     <<StoredRow(1, IdText(2), 0 - 1), StoredRow(2, IdText(1), 0 - 1)>>,
     <<StoredRow(1, IdText(1), 0 - 2), StoredRow(2, IdText(2), 0 - 1),
       StoredRow(3, IdText(1), 0)>>,
     <<StoredRow(1, IdText(1), 0 - 2), StoredRow(2, IdText(1), 0 - 2),
       StoredRow(3, IdText(2), 0 - 1)>>}

InitHistory ==
    /\ secret = ServerSecret
    /\ ipinfoToken = TRUE
    /\ users = <<RegisteredUser, OtherUser>>
    /\ histories \in HistoryStores
    /\ nextHistoryId = Len(histories) + 1
    /\ now = 0
    /\ req = [r \in Slots |-> Idle]
    /\ issued = {[via |-> "register", email |-> EmailA, token |-> SampleToken],
                 [via |-> "register", email |-> EmailD, token |-> OtherToken]}
    /\ started = 0
    /\ call = NoCall

NextHistory ==
    \/ HistoryStep("r1")
    \/ StartHistorySearch("r1")
    \/ ProviderRespond("r1")
    \/ HistoryStoreRespond("r1")
    \/ Finish("r1")

HistorySpec == InitHistory /\ [][NextHistory]_vars


\* ScenarioSpec: the history requests of one freshly registered user holding
\* a token, over an empty history store: search, list, delete and list again
\* fit in ScenarioRequests requests
ScenarioRequests == 4

InitScenario ==
    /\ secret = ServerSecret
    /\ ipinfoToken = TRUE
    /\ users = <<RegisteredUser>>
    /\ histories = <<>>
    /\ nextHistoryId = 1
    /\ now = 0
    /\ req = [r \in Slots |-> Idle]
    /\ issued = {[via |-> "register", email |-> EmailA, token |-> SampleToken]}
    /\ started = MaxRequests - ScenarioRequests
    /\ call = NoCall

ScenarioSpec == InitScenario /\ [][NextHistory]_vars


(***************************************************************************)
(* The utility functions, called directly                                  *)
(***************************************************************************)
\* tokens handed to verifyJwt
VerifyInputs == CraftedTokens \cup {SampleToken, GarbageToken}

\* verifyJwt(token) under the configured secret at the current time
CallVerifyJwt ==
    /\ \E t \in VerifyInputs :
         call' = [fn |-> "verifyJwt", token |-> t, at |-> now,
                  out |-> verifyJwt(t, secret, now)]
    /\ UNCHANGED <<config, users, histories, nextHistoryId, now, req, issued, started>>

\* raw texts handed to normalizeIp: plain, bracketed, mapped, with a zone,
\* with ports, and nestings of these; and a value that is not a string
NormalizeInputs ==
    {JsStr(<<"[", "[", ":", ":", "1", "]", "]">>),
     JsStr(<<"[", ":", ":", "1", "]">>),
     JsStr(<<":", ":", "f", "f", "f", "f", ":", ":", ":", "f", "f", "f", "f", ":", "1", ".", "2", ".", "3", ".", "4">>),
     JsStr(<<":", ":", "F", "F", "F", "F", ":", "1", ".", "2", ".", "3", ".", "4">>),
     JsStr(<<"1", ".", "2", ".", "3", ".", "4", ":", "8", "0", ":", "9", "0">>),
     JsStr(<<"1", ".", "2", ".", "3", ".", "4", ":", "8", "0">>),
     JsStr(<<"f", "e", "8", "0", ":", ":", "1", "%", "l", "o", "0">>),
     JsStr(<<" ", "8", ".", "8", ".", "8", ".", "8", " ">>),
     JsStr(<<"[", " ", "]">>),
     JsStr(<<>>),
     JsStr(<<"2", "0", "0", "1", ":", ":", "1">>)} \cup {JsUndef}

\* normalizeIp(raw)
CallNormalizeIp ==
    /\ \E raw \in NormalizeInputs :
         call' = [fn |-> "normalizeIp", raw |-> raw, out |-> normalizeIp(raw)]
    /\ UNCHANGED <<config, users, histories, nextHistoryId, now, req, issued, started>>

\* IP texts handed to isPrivateIp
PrivateInputs ==
    {<<"8", ".", "8", ".", "8", ".", "8">>,
     <<"1", ".", "1", ".", "1", ".", "1">>,
     <<"1", "2", "7", ".", "0", ".", "0", ".", "1">>,
     <<"1", "0", ".", "0", ".", "0", ".", "5">>,
     <<"1", "9", "2", ".", "1", "6", "8", ".", "1", ".", "1">>,
     <<":", ":", "1">>,
     <<"f", "e", "8", "0", ":", ":", "1">>,
     <<"F", "E", "8", "0", ":", ":", "1">>,
     <<"1", "7", "2", ".", "1", "6", ".", "0", ".", "1">>,
     <<"1", "7", "2", ".", "3", "1", ".", "9", ".", "9">>,
     <<"1", "7", "2", ".", "3", "2", ".", "0", ".", "1">>,
     <<"1", "6", "9", ".", "2", "5", "4", ".", "1", ".", "1">>,
     <<"1", "0", "0", ".", "1", ".", "1", ".", "1">>,
     <<"1", "2", "7", ".", "0", ".", "0", ".", "2">>,
     <<"f", "d", "0", "0", ":", ":", "1">>,
     <<"f", "c", "0", "0", ":", ":", "1">>,
     <<"f", "e", "b", "f", ":", ":", "1">>,
     <<"f", "e", "c", "0", ":", ":", "1">>,
     <<"2", "0", "0", "1", ":", ":", "1">>,
     <<"f", "c", ":", ":", "1">>,
     <<"f", "e", "8", ":", ":", "1">>,
     <<"0", ":", "0", ":", "0", ":", "0", ":", "0", ":", "0", ":", "0", ":", "1">>,
     <<":", ":", "f", "f", "f", "f", ":", "1", "0", ".", "0", ".", "0", ".", "1">>,
     <<"1", ":", ":">>}

\* isPrivateIp(ip) of a literal that net.isIP accepts
CallIsPrivateIp ==
    /\ \E ip \in PrivateInputs :
         /\ isValidIp(ip)
         /\ call' = [fn |-> "isPrivateIp", ip |-> ip, out |-> isPrivateIp(ip)]
    /\ UNCHANGED <<config, users, histories, nextHistoryId, now, req, issued, started>>

(***************************************************************************)
(* errorMiddleware (middleware/error.middleware.ts)                         *)
(***************************************************************************)
\* the texts errorMiddleware sends and looks for, and texts of errors
TX_Error == <<"E", "r", "r", "o", "r">>

TX_InvalidJson == <<"I", "n", "v", "a", "l", "i", "d", " ", "J", "S", "O", "N">>

TX_email == <<"e", "m", "a", "i", "l">>

TX_alreadyExists == <<"a", "l", "r", "e", "a", "d", "y", " ", "e", "x", "i", "s", "t", "s">>

TX_duplicate == <<"d", "u", "p", "l", "i", "c", "a", "t", "e">>

TX_EmailRegistered == <<"E", "m", "a", "i", "l", " ", "a", "l", "r", "e", "a", "d", "y", " ", "r", "e", "g", "i", "s", "t", "e", "r", "e", "d">>

TX_Conflict == <<"C", "o", "n", "f", "l", "i", "c", "t">>

TX_InternalServerError == <<"I", "n", "t", "e", "r", "n", "a", "l", " ", "S", "e", "r", "v", "e", "r", " ", "E", "r", "r", "o", "r">>

TX_UnknownError == <<"U", "n", "k", "n", "o", "w", "n", " ", "e", "r", "r", "o", "r">>

TX_InvalidIp == <<"I", "n", "v", "a", "l", "i", "d", " ", "I", "P">>

TX_secretDetail == <<"a", "t", " ", "d", "b", ":", "5", "4", "3", "2">>

TX_Unauthorized == <<"U", "n", "a", "u", "t", "h", "o", "r", "i", "z", "e", "d">>

TX_keyEmailExists == <<"K", "e", "y", " ", "(", "e", "m", "a", "i", "l", ")", " ", "a", "l", "r", "e", "a", "d", "y", " ", "e", "x", "i", "s", "t", "s">>

TX_DuplicateEmail == <<"D", "u", "p", "l", "i", "c", "a", "t", "e", " ", "e", "m", "a", "i", "l">>

\* String.prototype.includes for a text
IncludesText(s, p) == \E i \in 0..(Len(s) - Len(p)) : SubSeq(s, i + 1, i + Len(p)) = p

\* a thrown value as errorMiddleware inspects it: its class, statusCode,
\* message, code, details (AppError), status and type (body-parser), detail
\* (database drivers); texts are sequences of characters
ThrownError ==
    [cls |-> "Error", statusCode |-> 0, message |-> <<>>, code |-> "",
     details |-> JsUndef, status |-> 0, etype |-> "", detail |-> <<>>]

\* an object literal of no property
NoFields == [k \in {} |-> k]

\* a handler for which no environment is production
isProdNever(env) == FALSE

\* process.env.NODE_ENV === "production"
isProd(env) == env = "production"

\* err.message || "Error"
MessageOrError(err) == IF err.message = <<>> THEN TX_Error ELSE err.message

\* 1) AppError: {error, code?, details?}
appErrorPayload(err, env) ==
    [error |-> MessageOrError(err)]
        @@ (IF err.code # "" THEN [code |-> err.code] ELSE NoFields)
        @@ (IF ~isProd(env) /\ err.details.t # "undefined"
            THEN [details |-> err.details] ELSE NoFields)

\* 2) the SyntaxError of express.json()
isJsonParseError(err) ==
    err.cls = "SyntaxError" /\ (err.status = 400 \/ err.etype = "entity.parse.failed")

jsonErrorPayload(err, env) ==
    [error |-> TX_InvalidJson, code |-> "INVALID_JSON"]
        @@ (IF ~isProd(env) THEN [details |-> JsStr(err.message)] ELSE NoFields)

\* 3) SQLSTATE 23505: String(err.detail || err.message || "")
isObjectError(err) == err.cls # "string"

DetailOrMessage(err) == IF err.detail # <<>> THEN err.detail ELSE err.message

looksLikeEmailUnique(text) ==
    /\ IncludesText(text, TX_email)
    /\ (IncludesText(text, TX_alreadyExists) \/ IncludesText(text, TX_duplicate))

uniqueErrorPayload(err, env) ==
    [error |-> IF looksLikeEmailUnique(ToLower(DetailOrMessage(err)))
               THEN TX_EmailRegistered ELSE TX_Conflict,
     code |-> IF looksLikeEmailUnique(ToLower(DetailOrMessage(err)))
              THEN "EMAIL_EXISTS" ELSE "CONFLICT"]
        @@ (IF ~isProd(env)
            THEN [details |-> IF DetailOrMessage(err) = <<>> THEN JsUndef
                              ELSE JsStr(DetailOrMessage(err))]
            ELSE NoFields)

\* 4) anything else
isErrorInstance(err) == err.cls \in {"Error", "AppError", "SyntaxError"}

unknownErrorPayload(err, env) ==
    [error |-> TX_InternalServerError, code |-> "INTERNAL_ERROR"]
        @@ (IF ~isProd(env)
            THEN [details |-> JsStr(IF isErrorInstance(err) THEN err.message
                                    ELSE TX_UnknownError)]
            ELSE NoFields)

\* the status and payload errorMiddleware chooses
errorStatus(err) ==
    IF err.cls = "AppError" THEN err.statusCode
    ELSE IF isJsonParseError(err) THEN 400
    ELSE IF isObjectError(err) /\ err.code = "23505" THEN 409
    ELSE 500

errorPayload(err, env) ==
    IF err.cls = "AppError" THEN appErrorPayload(err, env)
    ELSE IF isJsonParseError(err) THEN jsonErrorPayload(err, env)
    ELSE IF isObjectError(err) /\ err.code = "23505" THEN uniqueErrorPayload(err, env)
    ELSE unknownErrorPayload(err, env)

\* safeLog: the whole error outside production, its message in production
safeLog(err, env) ==
    IF ~isProd(env) THEN [whole |-> TRUE, text |-> err.message]
    ELSE [whole |-> ~isErrorInstance(err), text |-> err.message]

\* errorMiddleware(err, req, res, next): what is logged and what respond
\* sends, nothing when the headers have been sent
errorMiddleware(err, env, headersSent) ==
    [logged |-> safeLog(err, env),
     sent |-> ~headersSent,
     status |-> errorStatus(err),
     payload |-> errorPayload(err, env)]

\* errors of every branch: AppErrors with and without code and details, the
\* parse error of express.json(), unique violations as SQLSTATE, Prisma's
\* P2002, a plain Error and a thrown string
ErrorInputs ==
    {[ThrownError EXCEPT !.cls = "AppError", !.statusCode = 400, !.message = TX_InvalidIp,
                         !.code = "INVALID_IP", !.details = JsStr(TX_secretDetail)],
     [ThrownError EXCEPT !.cls = "AppError", !.statusCode = 401, !.message = TX_Unauthorized],
     [ThrownError EXCEPT !.cls = "AppError", !.statusCode = 500, !.code = "JWT_MISCONFIG",
                         !.details = JsNull],
     [ThrownError EXCEPT !.cls = "SyntaxError", !.status = 400, !.message = TX_secretDetail],
     [ThrownError EXCEPT !.cls = "SyntaxError", !.etype = "entity.parse.failed",
                         !.message = TX_secretDetail],
     [ThrownError EXCEPT !.cls = "SyntaxError", !.message = TX_secretDetail],
     [ThrownError EXCEPT !.cls = "object", !.code = "23505", !.detail = TX_keyEmailExists],
     [ThrownError EXCEPT !.cls = "Error", !.code = "23505", !.message = TX_DuplicateEmail],
     [ThrownError EXCEPT !.cls = "object", !.code = "23505"],
     [ThrownError EXCEPT !.cls = "Error", !.code = "P2002", !.message = TX_DuplicateEmail],
     [ThrownError EXCEPT !.cls = "Error", !.message = TX_secretDetail],
     [ThrownError EXCEPT !.cls = "string", !.message = TX_secretDetail]}

\* values of process.env.NODE_ENV; "" when it is not set
NodeEnvInputs == {"production", "development", "test", ""}

\* errorMiddleware(err, req, res, next) under NODE_ENV = env
CallErrorMiddleware ==
    /\ \E err \in ErrorInputs, env \in NodeEnvInputs, headersSent \in BOOLEAN :
         call' = [fn |-> "errorMiddleware", err |-> err, env |-> env,
                  headersSent |-> headersSent,
                  out |-> errorMiddleware(err, env, headersSent)]
    /\ UNCHANGED <<config, users, histories, nextHistoryId, now, req, issued, started>>


(***************************************************************************)
(* Routing of the assembled application (app.ts and routes/)               *)
(***************************************************************************)
\* router.METHOD(pattern, ..., handler); a pattern and a path are sequences
\* of segments
Route(method, pattern, handler) == [method |-> method, pattern |-> pattern, handler |-> handler]

\* routes/auth.routes.ts
AuthRoutes ==
    <<Route("POST", <<"login">>, "loginController"),
      Route("POST", <<"register">>, "registerController"),
      Route("GET", <<"me">>, "meController")>>

\* routes/geo.routes.ts
GeoRoutes ==
    <<Route("GET", <<"geo", "self">>, "geoSelfController"),
      Route("GET", <<"geo", ":ip">>, "geoByIpController")>>

\* routes/history.routes.ts
HistoryRoutes ==
    <<Route("GET", <<>>, "listSearchHistoryController"),
      Route("POST", <<"search">>, "createSearchHistoryController"),
      Route("DELETE", <<>>, "deleteSearchHistoriesController")>>

\* app.use(prefix, router), in the order of app.ts
Mounts(geoRoutes) ==
    <<[prefix |-> <<"api">>, routes |-> AuthRoutes],
      [prefix |-> <<"api", "geo">>, routes |-> geoRoutes],
      [prefix |-> <<"api", "history">>, routes |-> HistoryRoutes]>>

\* a named parameter matches any one segment
IsParam(seg) == seg = ":ip"

PathMatches(pattern, path) ==
    /\ Len(pattern) = Len(path)
    /\ \A i \in 1..Len(pattern) : IsParam(pattern[i]) \/ pattern[i] = path[i]

RouteMatches(route, method, path) == route.method = method /\ PathMatches(route.pattern, path)

\* the mount strips its prefix and its router looks for the first route
\* that matches the rest
MountMatches(mount, method, path) ==
    /\ StartsWith(path, mount.prefix)
    /\ \E i \in 1..Len(mount.routes) :
           RouteMatches(mount.routes[i], method, DropFirst(path, Len(mount.prefix)))

FirstRoute(routes, method, path) ==
    routes[CHOOSE i \in 1..Len(routes) :
               /\ RouteMatches(routes[i], method, path)
               /\ \A j \in 1..(i - 1) : ~RouteMatches(routes[j], method, path)]

FirstMount(mounts, method, path) ==
    mounts[CHOOSE i \in 1..Len(mounts) :
               /\ MountMatches(mounts[i], method, path)
               /\ \A j \in 1..(i - 1) : ~MountMatches(mounts[j], method, path)]

\* the handler a request reaches and its :ip parameter; Express answers 404
\* when no route matches
Dispatched(route, rest) ==
    [handler |-> route.handler, status |-> 0,
     ip |-> IF \E i \in 1..Len(rest) : IsParam(route.pattern[i])
            THEN rest[CHOOSE i \in 1..Len(rest) : IsParam(route.pattern[i])]
            ELSE ""]

NotFound == [handler |-> "none", status |-> 404, ip |-> ""]

dispatchOver(mounts, method, path) ==
    IF \E i \in 1..Len(mounts) : MountMatches(mounts[i], method, path)
    THEN Dispatched(FirstRoute(FirstMount(mounts, method, path).routes, method,
                               DropFirst(path, Len(FirstMount(mounts, method, path).prefix))),
                    DropFirst(path, Len(FirstMount(mounts, method, path).prefix)))
    ELSE NotFound

\* the application of app.ts
dispatch(method, path) == dispatchOver(Mounts(GeoRoutes), method, path)

\* request paths: the documented ones, and those with the prefix repeated
PathInputs ==
    {<<"api", "geo", "self">>, <<"api", "geo", "8.8.8.8">>,
     <<"api", "geo", "geo", "self">>, <<"api", "geo", "geo", "8.8.8.8">>,
     <<"api", "geo">>, <<"api", "self">>,
     <<"api", "login">>, <<"api", "register">>, <<"api", "me">>,
     <<"api", "history">>, <<"api", "history", "search">>}

MethodInputs == {"GET", "POST", "DELETE"}

\* a request of the method and path enters the application
CallDispatch ==
    /\ \E method \in MethodInputs, path \in PathInputs :
         call' = [fn |-> "dispatch", method |-> method, path |-> path,
                  out |-> dispatch(method, path)]
    /\ UNCHANGED <<config, users, histories, nextHistoryId, now, req, issued, started>>

NextUtil ==
    \/ CallVerifyJwt
    \/ CallDispatch
    \/ CallErrorMiddleware
    \/ CallNormalizeIp
    \/ CallIsPrivateIp
    \/ Tick

\* UtilSpec: the exported utility functions applied to inputs of every shape
UtilSpec == Init /\ [][NextUtil]_vars


(***************************************************************************)
(* Properties                                                              *)
(***************************************************************************)
ProtectedRoutes == {"geo_ip", "geo_self", "history_search"}

\* geoService.resolve has been entered by the request q
ResolveCalled(q) == q.resolved \/ q.pc = "lookup_wait"

\* C1: resolve is total. Whatever the input and whatever the lookup does
\* (throws, answers with a non-OK status, has no IPINFO_TOKEN, returns a
\* non-object or an object with missing or malformed fields), a call of
\* resolve that has completed has returned a GeoSnapshot or null, and no
\* exception has reached its caller.
C1_ResolveTotal ==
    \A r \in Slots :
        req[r].resolved =>
            /\ req[r].geo.kind = "return"
            /\ req[r].geo.error = NoError
            /\ req[r].geo.value.t \in {"null", "geo"}
            /\ (req[r].route \in {"geo_ip", "geo_self"} /\ req[r].pc = "done"
                    => req[r].err = NoError /\ req[r].resp = Ok(200, [geo |-> req[r].geo.value]))

\* the lookup was invoked for a public IP, threw because IPINFO_TOKEN is not
\* set, and resolve returned null
C1_Witness ==
    \E r \in Slots :
        /\ ~ipinfoToken
        /\ req[r].resolved
        /\ req[r].calls = 1
        /\ req[r].ip = JsStr(IpPublic)
        /\ req[r].geo = Return(JsNull)

\* C2: resolve(null) returns null and resolve(ip) returns null for every ip
\* that isPrivateIp classifies as private; in both cases the external lookup
\* is invoked zero times during the call.
C2_NoLookupForNullOrPrivate ==
    \A r \in Slots :
        (ResolveCalled(req[r])
            /\ (req[r].ip.t = "null" \/ (req[r].ip.t = "string" /\ isPrivateIp(req[r].ip.s))))
        => /\ req[r].resolved
           /\ req[r].calls = 0
           /\ req[r].geo = Return(JsNull)

\* resolve returned null for a private address without calling the lookup
C2_Witness ==
    \E r \in Slots :
        /\ req[r].resolved
        /\ req[r].ip = JsStr(IpPrivateV4)
        /\ req[r].calls = 0
        /\ req[r].geo = Return(JsNull)


\* C3: the lookup applies a bounded timeout. Every call of resolve on a
\* public IP eventually returns, even when the provider never completes its
\* answer, so no request stays pending on the provider forever.
C3_LookupEventuallyReturns ==
    \A r \in Slots : (req[r].pc = "lookup_wait") ~> req[r].resolved

\* C4: searchAndRecord returns exactly what resolve produced, whether
\* createSearchHistory succeeds or throws. A failure of the history store is
\* never passed on: POST /history/search still answers 200 {geo}.
C4_PersistFailureNotSurfaced ==
    \A r \in Slots :
        (req[r].route = "history_search" /\ req[r].persist \in {"stored", "failed"})
        => /\ req[r].pc = "done"
           /\ req[r].err = NoError
           /\ req[r].resp = Ok(200, [geo |-> req[r].geo.value])

\* the history store failed after resolve produced a snapshot, and the
\* response is 200 with that snapshot
C4_Witness ==
    \E r \in Slots :
        /\ req[r].route = "history_search"
        /\ req[r].persist = "failed"
        /\ req[r].geo.value.t = "geo"
        /\ req[r].resp.status = 200
        /\ histories = <<>>

\* C5: history persistence never blocks the response. In POST
\* /history/search the geo result goes to the client without waiting for
\* the write of the history row, so a store that never answers does not
\* prevent the response.
C5_PersistDoesNotBlock ==
    \A r \in Slots : (req[r].persist = "pending") ~> req[r].resp.sent

\* the body passed validation and login ended without a store failure
LoginDecided(q) ==
    /\ q.route = "login"
    /\ q.pc = "done"
    /\ q.handler
    /\ q.err # StoreError

\* C6: non-enumeration. A login with a registered email and a wrong
\* password and a login with an email that is not registered end with the
\* same error: status 401, code INVALID_CREDENTIALS, the same message.
C6_NonEnumeration ==
    \A r \in Slots :
        (LoginDecided(req[r])
            /\ (req[r].found = NoRow \/ req[r].found.passwordHash.of # req[r].cred.password))
        => /\ req[r].err = AppError(401, "Invalid credentials", "INVALID_CREDENTIALS")
           /\ req[r].resp.status = 401
           /\ req[r].token = GarbageToken

\* a login with a registered email and a wrong password was refused
C6_Witness ==
    \E r \in Slots :
        /\ LoginDecided(req[r])
        /\ req[r].found # NoRow
        /\ req[r].found.passwordHash.of # req[r].cred.password
        /\ req[r].err.code = "INVALID_CREDENTIALS"

\* the rows of the users table with this email
RowsOf(email) == {k \in 1..Len(users) : users[k].email = email}

\* C7: with a configured secret, register(E,P) for a valid, not yet
\* registered E succeeds with a token, a following login(E,P) succeeds with
\* a token, and verifying either token yields the same subject: the id of
\* the single users row created for E.
C7_RegisterThenLogin ==
    /\ \A r \in Slots :
           (req[r].route = "register" /\ req[r].pc = "done" /\ req[r].handler
               /\ secret # NoSecret
               /\ req[r].err.type # "Error"
               /\ req[r].err.code \notin {"EMAIL_EXISTS", "P2002"})
           => /\ req[r].resp = Ok(201, [token |-> req[r].token])
              /\ [via |-> "register", email |-> req[r].cred.email, token |-> req[r].token]
                     \in issued
    /\ \A r \in Slots :
           (req[r].route = "login" /\ req[r].pc = "done" /\ req[r].handler
               /\ secret # NoSecret
               /\ req[r].found # NoRow
               /\ req[r].found.passwordHash.of = req[r].cred.password)
           => /\ req[r].resp = Ok(200, [token |-> req[r].token])
              /\ [via |-> "login", email |-> req[r].cred.email, token |-> req[r].token]
                     \in issued
    /\ \A i \in issued :
           /\ Cardinality(RowsOf(i.email)) = 1
           /\ verifyJwt(i.token, secret, i.token.iat).kind = "return"
           /\ \A k \in RowsOf(i.email) :
                  verifyJwt(i.token, secret, i.token.iat).sub = users[k].id

\* a token was issued by register and another by a later login for the
\* same email
C7_Witness ==
    \E i, j \in issued :
        /\ i.via = "register"
        /\ j.via = "login"
        /\ i.email = j.email
        /\ \E r \in Slots : req[r].route = "login" /\ req[r].token = j.token

\* C8: when two register requests for the same normalized email both pass
\* the findByEmail check before either creates the row, exactly one create
\* succeeds and the other request is answered 409 (EMAIL_EXISTS), not with
\* an unclassified 500.
C8_RaceLoserGetsConflict ==
    /\ \A e \in {normalizeEmail(x).s : x \in EmailInputs} :
           Cardinality(RowsOf(e)) <= 1
    /\ \A r \in Slots :
           (req[r].route = "register" /\ req[r].pc = "done" /\ req[r].err = UniqueViolation)
           => req[r].resp.status = 409

\* the condition under which the gate lets a request through: the header is
\* present and is exactly "Bearer" and a token, a secret is configured, and
\* verifying the token yields a non-empty string subject
GateShouldAccept(q) ==
    /\ q.header.present
    /\ Len(HeaderParts(q.header)) = 2
    /\ HeaderParts(q.header)[1] = <<Word("Bearer")>>
    /\ secret # NoSecret
    /\ verifyJwt(PartToken(HeaderParts(q.header)[2]), secret, q.at).kind = "return"
    /\ verifyJwt(PartToken(HeaderParts(q.header)[2]), secret, q.at).sub # <<>>

\* C9: the Auth Gate is all-or-nothing. On a protected route the handler
\* runs only if the Authorization header is present, is exactly "Bearer"
\* and a token, a secret is configured and verification yields a non-empty
\* string subject; then req.user.id is that subject. Otherwise the response
\* is 401 {error: "Unauthorized"}, req.user stays unset and the handler
\* never runs.
C9_GateAllOrNothing ==
    \A r \in Slots :
        req[r].route \in ProtectedRoutes =>
            IF GateShouldAccept(req[r])
            THEN /\ req[r].handler
                 /\ req[r].user.set
                 /\ req[r].user.id = PartToken(HeaderParts(req[r].header)[2]).sub.s
                 /\ req[r].resp # Unauthorized401
            ELSE /\ ~req[r].handler
                 /\ req[r].user = NoUser
                 /\ req[r].pc = "done"
                 /\ req[r].resp = Unauthorized401
                 /\ req[r].calls = 0
                 /\ req[r].persist = "none"

\* a request whose header carries extra whitespace around a token that verifies
\* passed the gate and its handler answered
C9_Witness ==
    \E r \in Slots :
        /\ req[r].route \in ProtectedRoutes
        /\ req[r].handler
        /\ req[r].user.set
        /\ req[r].user.id = IdText(1)
        /\ req[r].resp.status = 200

\* the request q got to the point where it needs the signing secret
NeedsSecret(q) ==
    \/ q.route \in ProtectedRoutes
    \/ (q.route = "register" /\ q.found # NoRow /\ q.err.code # "EMAIL_EXISTS")
    \/ (q.route = "login" /\ q.found # NoRow
           /\ q.found.passwordHash.of = q.cred.password)

\* C10 as stated: a missing JWT_SECRET is surfaced as 401 Unauthorized on
\* every endpoint that needs the secret, POST /login and POST /register
\* with otherwise valid input included, and never as a 5xx response.
C10_MissingSecretIs401 ==
    \A r \in Slots :
        (secret = NoSecret /\ req[r].pc = "done" /\ NeedsSecret(req[r]))
        => req[r].resp.status = 401

\* C10: a missing JWT_SECRET is surfaced as 401 {error: "Unauthorized"} on
\* the protected routes, where the gate stops the request before its
\* handler; POST /login with correct credentials and POST /register with a
\* new valid email fail at signJwt with AppError 500 JWT_MISCONFIG and are
\* answered with status 500.
C10_MissingSecretByRoute ==
    \A r \in Slots :
        (secret = NoSecret /\ req[r].pc = "done" /\ NeedsSecret(req[r]))
        => IF req[r].route \in ProtectedRoutes
           THEN req[r].resp = Unauthorized401 /\ ~req[r].handler
           ELSE /\ req[r].err = AppError(500, "JWT secret is not configured", "JWT_MISCONFIG")
                /\ req[r].resp.status = 500
                /\ req[r].token = GarbageToken

\* without a secret, a login with the right password of a stored user ended
\* with JWT_MISCONFIG
C10_Witness ==
    \E r \in Slots :
        /\ secret = NoSecret
        /\ req[r].route = "login"
        /\ req[r].pc = "done"
        /\ req[r].found # NoRow
        /\ req[r].err.code = "JWT_MISCONFIG"

\* the token fails verification for one of the three reasons that lie in
\* the token: its signature, its expiry, its subject
TokenUnusable(t, at) ==
    \/ ~t.wellFormed
    \/ t.key # secret
    \/ (t.payload = "object" /\ at >= t.exp)
    \/ t.payload = "string"
    \/ t.sub.t # "string"
    \/ t.sub.s = <<>>

\* C11 as stated: verifyJwt fails uniformly. With an invalid signature, an
\* expired token, a payload without a usable string subject or no signing
\* secret configured, it fails with the same error: 401 UNAUTHORIZED
\* "Unauthorized".
C11_VerifyFailsUniformly ==
    (call.fn = "verifyJwt" /\ (secret = NoSecret \/ TokenUnusable(call.token, call.at)))
    => call.out = Throw(AppError(401, "Unauthorized", "UNAUTHORIZED"))

\* C11: with a secret configured, verifyJwt fails with the same error (401
\* UNAUTHORIZED "Unauthorized") for an invalid signature, an expired token
\* and a payload without a usable string subject, and succeeds otherwise;
\* with no secret configured it fails for every token with 500
\* JWT_MISCONFIG, which the caller can tell apart.
C11_VerifyFailures ==
    call.fn = "verifyJwt" =>
        IF secret = NoSecret
        THEN call.out = Throw(AppError(500, "JWT secret is not configured", "JWT_MISCONFIG"))
        ELSE IF TokenUnusable(call.token, call.at)
        THEN call.out = Throw(AppError(401, "Unauthorized", "UNAUTHORIZED"))
        ELSE call.out.kind = "return" /\ call.out.sub = call.token.sub.s

\* an expired token with a good signature and subject was refused with 401
C11_Witness ==
    /\ call.fn = "verifyJwt"
    /\ secret # NoSecret
    /\ call.token = SampleToken
    /\ call.at >= SampleToken.exp
    /\ call.out = Throw(Unauthorized)

\* the tokens signJwt has handed out
IssuedTokens == {i.token : i \in issued}

\* a request to a protected route that presented the issued token tok
PresentsIssued(q, tok) ==
    /\ q.route \in ProtectedRoutes
    /\ q.header = Bearer(tok)

\* what the gate does with a token signJwt issued: accepted at every time
\* before iat + lifetime, refused with 401 from then on
IssuedTokenWindow ==
    \A r \in Slots : \A tok \in IssuedTokens :
        /\ tok.exp = tok.iat + TokenLifetime
        /\ PresentsIssued(req[r], tok) =>
               IF req[r].at < tok.exp
               THEN /\ req[r].handler
                    /\ req[r].user.id = tok.sub.s
                    /\ req[r].resp # Unauthorized401
               ELSE /\ ~req[r].handler
                    /\ req[r].resp = Unauthorized401

\* C12: the token lifetime is bounded and the token is otherwise stateless.
\* With an unchanged secret, a token signJwt issued at time t with lifetime
\* d is accepted by the Auth Gate at every time before t + d and refused
\* with 401 at every time after t + d; time never runs backwards and the
\* secret does not change, so a token once refused as expired is never
\* accepted again.
C12_TokenLifetimeBounded ==
    /\ []IssuedTokenWindow
    /\ [][now' >= now /\ secret' = secret /\ IssuedTokens \subseteq IssuedTokens']_vars

\* a token issued by register was presented after its lifetime and refused
C12_Witness ==
    \E r \in Slots : \E tok \in IssuedTokens :
        /\ PresentsIssued(req[r], tok)
        /\ req[r].at > tok.exp
        /\ req[r].resp = Unauthorized401

\* in this step the handler of a DELETE /history request of slot r, whose
\* body passed validation, returns
DeleteCompletes(r) ==
    /\ req'[r].route = "history_delete"
    /\ req'[r].handler
    /\ validIds(req'[r].ids)
    /\ req[r].pc # "done"
    /\ req'[r].pc = "done"

AskedAndOwned(row, uid, ids) ==
    /\ row.userId = uid
    /\ \E k \in 1..Len(ids.items) : ids.items[k].s = row.id

\* the rows of a store, as a set
RowSet(hist) == {hist[i] : i \in 1..Len(hist)}

\* C15: deleteMany is scoped to the owner. deleteMany(userId, ids) removes
\* exactly the rows whose id is in ids and whose owner is userId, returns
\* the number of such rows and leaves every row of another user unchanged;
\* when all ids belong to other users it returns 0 and raises no error.
C15_DeleteScopedToOwner ==
    [][\A r \in Slots :
          (DeleteCompletes(r) /\ req'[r].ids.items # <<>> /\ req'[r].err # StoreError)
          => /\ RowSet(histories') =
                    {row \in RowSet(histories) :
                        ~AskedAndOwned(row, req'[r].user.id, req'[r].ids)}
             /\ Len(histories') = Cardinality(RowSet(histories'))
             /\ req'[r].deleted =
                    Cardinality({row \in RowSet(histories) :
                                    AskedAndOwned(row, req'[r].user.id, req'[r].ids)})
             /\ \A row \in RowSet(histories) :
                    row.userId # req'[r].user.id => row \in RowSet(histories')
             /\ req'[r].err = NoError
             /\ req'[r].resp = Ok(200, [deleted |-> req'[r].deleted])]_vars

\* the first user asked to delete the rows h1, h2 and h3, two of them their
\* own: 2 were deleted and the row of the other user is still there
C15_Witness ==
    \E r \in Slots :
        /\ req[r].route = "history_delete"
        /\ req[r].user.id = IdText(1)
        /\ Len(req[r].ids.items) = 3
        /\ req[r].deleted = 2
        /\ Len(histories) = 1
        /\ histories[1].userId = IdText(2)

\* the handler of a GET /history request has computed the page size
ListHandled(q) == q.route = "history_list" /\ q.handler

\* the query carries a limit that is a number: a text that Number() does
\* not turn into NaN
NumericLimit(q) == q.limitRaw.t = "string" /\ ~NumberIsNaN(JsNumberOfString(q.limitRaw.s))

\* max(1, min(n, 100)) of an integer
ClampInt(n) == IF n < 1 THEN 1 ELSE IF n > 100 THEN 100 ELSE n

\* max(1, min(v, 100)) of a number that may be an infinity
ClampNumber(v) == IF v.fin THEN ClampInt(v.n) ELSE IF v.n > 0 THEN 100 ELSE 1

ListAnswered(q) ==
    /\ ListHandled(q)
    /\ q.pc = "done"
    /\ q.err = NoError

\* the smaller of two naturals
Least(a, b) == IF a < b THEN a ELSE b

\* the number of rows the user of request q owns
OwnedCount(q) == Cardinality(OwnedBy(histories, q.user.id))

\* C17 as stated: limit=1000 yields at most 100 items; limit=0 or an
\* omitted limit yields the default page size (50 items when the user has
\* at least 50 entries).
C17_ZeroLimitIsDefault ==
    \A r \in Slots :
        ListAnswered(req[r]) =>
            /\ req[r].limitRaw = JsStr(<<"1", "0", "0", "0">>)
                   => Len(req[r].items) = Least(100, OwnedCount(req[r]))
            /\ req[r].limitRaw \in {JsUndef, JsStr(<<"0">>)}
                   => Len(req[r].items) = Least(50, OwnedCount(req[r]))

\* C17: limit=1000 yields at most 100 items, an omitted limit yields the
\* default page size of 50, and limit=0 is clamped to a page of 1 item.
C17_ZeroLimitIsOne ==
    \A r \in Slots :
        ListAnswered(req[r]) =>
            /\ req[r].limitRaw = JsStr(<<"1", "0", "0", "0">>)
                   => req[r].take = 100 /\ Len(req[r].items) = Least(100, OwnedCount(req[r]))
            /\ req[r].limitRaw = JsUndef
                   => req[r].take = 50 /\ Len(req[r].items) = Least(50, OwnedCount(req[r]))
            /\ req[r].limitRaw = JsStr(<<"0">>)
                   => req[r].take = 1 /\ Len(req[r].items) = Least(1, OwnedCount(req[r]))

\* a user with two rows asked with limit=0 and got one item
C17_Witness ==
    \E r \in Slots :
        /\ ListAnswered(req[r])
        /\ req[r].limitRaw = JsStr(<<"0">>)
        /\ OwnedCount(req[r]) = 2
        /\ Len(req[r].items) = 1

\* C18: per-user isolation of history. After any sequence of search, list
\* and delete operations by any users, GET /history for user U returns only
\* rows whose owner is U, each once, ordered by creation time with the most
\* recent first.
C18_ListOnlyOwnRowsNewestFirst ==
    \A r \in Slots :
        ListAnswered(req[r]) =>
            /\ \A j \in 1..Len(req[r].items) :
                   \E i \in 1..Len(histories) :
                       /\ histories[i].id = req[r].items[j].id
                       /\ histories[i].userId = req[r].user.id
                       /\ Selected(histories[i]) = req[r].items[j]
            /\ \A j, k \in 1..Len(req[r].items) :
                   /\ j < k => req[r].items[j].createdAt >= req[r].items[k].createdAt
                   /\ j # k => req[r].items[j].id # req[r].items[k].id
            /\ req[r].resp = Ok(200, [items |-> req[r].items])

\* the first user got their two rows, the newer one first, while the store
\* also holds a row of the second user
C18_Witness ==
    \E r \in Slots :
        /\ ListAnswered(req[r])
        /\ req[r].user.id = IdText(1)
        /\ Len(req[r].items) = 2
        /\ req[r].items[1].createdAt > req[r].items[2].createdAt
        /\ \E i \in 1..Len(histories) : histories[i].userId = IdText(2)

\* C19: normalizeIp is idempotent: normalizing its own result (null stays
\* null) changes nothing, for every input including nested brackets,
\* repeated "::ffff:" prefixes and several ":digits" suffixes.
C19_NormalizeIpIdempotent ==
    call.fn = "normalizeIp" => normalizeIp(call.out) = call.out

\* the value of a hexadecimal digit
HexDigitVal(c) ==
    IF IsDigit(c) THEN DigitVal(c)
    ELSE 9 + (CHOOSE i \in 1..6 : Lower[i] = LowerChar(c))

RECURSIVE HexValue(_)
HexValue(s) ==
    IF s = <<>> THEN 0 ELSE 16 * HexValue(SubSeq(s, 1, Len(s) - 1)) + HexDigitVal(s[Len(s)])

\* the four octets of a valid IPv4 literal
V4Octets(s) == [i \in 1..4 |-> DecimalValue(Split(s, ".")[i])]

\* the 16-bit values of the listed groups of an IPv6 literal, an embedded
\* IPv4 address standing for two of them
RECURSIVE GroupValues(_)
GroupValues(groups) ==
    IF groups = <<>> THEN <<>>
    ELSE IF isIPv4(Head(groups))
    THEN <<256 * V4Octets(Head(groups))[1] + V4Octets(Head(groups))[2],
           256 * V4Octets(Head(groups))[3] + V4Octets(Head(groups))[4]>>
    ELSE <<HexValue(Head(groups))>> \o GroupValues(Tail(groups))

\* n zero groups
Zeros(n) == [i \in 1..n |-> 0]

\* the eight 16-bit groups of an IPv6 literal whose "::" is at dc
V6Expand(left, right) == left \o Zeros(8 - Len(left) - Len(right)) \o right

V6Groups(s, dc) ==
    IF dc = 0 THEN GroupValues(Split(s, ":"))
    ELSE V6Expand(GroupValues(SideGroups(TakeFirst(s, dc - 1))),
                  GroupValues(SideGroups(DropFirst(s, dc + 1))))

\* loopback, the RFC 1918 blocks and 169.254.0.0/16
RangePrivateV4(o) ==
    \/ o = <<127, 0, 0, 1>>
    \/ o[1] = 10
    \/ (o[1] = 172 /\ o[2] \in 16..31)
    \/ (o[1] = 192 /\ o[2] = 168)
    \/ (o[1] = 169 /\ o[2] = 254)

\* ::1, fe80::/10 (first group fe80..febf) and fc00::/7 (fc00..fdff)
RangePrivateV6(g) ==
    \/ g = <<0, 0, 0, 0, 0, 0, 0, 1>>
    \/ g[1] \in 65152..65215
    \/ g[1] \in 64512..65023

\* the reference range predicate on a valid literal
RangePrivate(ip) ==
    IF isIPv4(ip) THEN RangePrivateV4(V4Octets(ip))
    ELSE RangePrivateV6(V6Groups(ip, DoubleColonAt(ip)))

\* C20: isPrivateIp agrees with the reference range predicate on every
\* syntactically valid address: true exactly for 127.0.0.1, ::1, 10.0.0.0/8,
\* 172.16.0.0/12, 192.168.0.0/16, 169.254.0.0/16, fe80::/10 and fc00::/7,
\* false for every other valid IPv4 or IPv6 literal.
C20_PrivateMatchesRanges ==
    call.fn = "isPrivateIp" => (call.out <=> RangePrivate(call.ip))

\* the store has answered the createSearchHistory of a search whose lookup
\* gave a snapshot, and the row was written
SearchStored(r) ==
    /\ req[r].pc = "persist_wait"
    /\ req'[r].pc = "done"
    /\ req[r].geo.value # JsNull
    /\ req'[r].persist = "stored"

\* the store has answered the findMany of a list request
ListCompletes(r) ==
    /\ req[r].pc = "list_wait"
    /\ req'[r].pc = "done"
    /\ req'[r].err = NoError

\* the delete request names exactly one id, that of a row its user owns
DeletesOneOwnRow(r) ==
    /\ DeleteCompletes(r)
    /\ req'[r].err = NoError
    /\ Len(req'[r].ids.items) = 1
    /\ \E row \in RowSet(histories) : AskedAndOwned(row, req'[r].user.id, req'[r].ids)

\* C21: end-to-end history scenario. For a registered user with a working
\* store and lookup provider, POST /history/search with a valid public IP
\* answers 200 {geo} and adds exactly one history row of that user; GET
\* /history returns exactly the rows the user owns (1 item after the
\* search, 0 after its deletion); DELETE /history with the id of that row
\* answers {deleted: 1} and removes it.
C21_HistoryScenario ==
    [][\A r \in Slots :
          /\ SearchStored(r)
             => /\ Len(histories') = Len(histories) + 1
                /\ SubSeq(histories', 1, Len(histories)) = histories
                /\ histories'[Len(histories')].userId = req[r].user.id
                /\ histories'[Len(histories')].ip = req[r].ip.s
                /\ isValidIp(req[r].ip.s) /\ ~isPrivateIp(req[r].ip.s)
                /\ \A k \in 1..Len(histories) :
                       histories[k].id # histories'[Len(histories')].id
                /\ req'[r].resp = Ok(200, [geo |-> req[r].geo.value])
          /\ ListCompletes(r)
             => /\ Len(req'[r].items) = Least(req[r].take, OwnedCount(req[r]))
                /\ \A j \in 1..Len(req'[r].items) :
                       \E i \in OwnedBy(histories, req[r].user.id) :
                           Selected(histories[i]) = req'[r].items[j]
                /\ req'[r].resp = Ok(200, [items |-> req'[r].items])
                /\ histories' = histories
          /\ DeletesOneOwnRow(r)
             => /\ req'[r].resp = Ok(200, [deleted |-> 1])
                /\ Len(histories') = Len(histories) - 1
                /\ \A row \in RowSet(histories') :
                       ~AskedAndOwned(row, req'[r].user.id, req'[r].ids)]_vars

\* the scenario has run to its end: one row was created by a search (the
\* next id is h2), it was deleted again, and the last of the four requests,
\* a GET /history, returned no item
C21_Witness ==
    \E r \in Slots :
        /\ ListAnswered(req[r])
        /\ req[r].items = <<>>
        /\ histories = <<>>
        /\ nextHistoryId = 2
        /\ started = MaxRequests

\* errorMiddleware was called and sent a payload
ErrorSent == call.fn = "errorMiddleware" /\ call.out.sent

\* the error is of none of the kinds errorMiddleware knows
UnknownKind(err) ==
    /\ err.cls # "AppError"
    /\ ~(err.cls = "SyntaxError" /\ (err.status = 400 \/ err.etype = "entity.parse.failed"))
    /\ err.code # "23505"

\* C22: errorMiddleware includes a details field in the payload only
\* outside production: whenever NODE_ENV is "production", for every kind of
\* error, the payload sent has no details field, and for an unknown error it
\* is only the generic message "Internal Server Error".
C22_NoDetailsInProduction ==
    ErrorSent =>
        /\ "details" \in DOMAIN call.out.payload => call.env # "production"
        /\ (call.env = "production" /\ UnknownKind(call.err))
               => /\ call.out.payload =
                         [error |-> TX_InternalServerError, code |-> "INTERNAL_ERROR"]
                  /\ call.out.status = 500
        /\ call.env = "production"
               => DOMAIN call.out.payload \subseteq {"error", "code"}

\* in production an AppError that carries details was answered with its
\* message and code and without the details
C22_Witness ==
    /\ ErrorSent
    /\ call.env = "production"
    /\ call.err.cls = "AppError"
    /\ call.err.details = JsStr(TX_secretDetail)
    /\ call.out.payload = [error |-> TX_InvalidIp, code |-> "INVALID_IP"]

\* C23: every domain error (AppError) raised while handling an API request
\* is translated at the boundary into a response with the error's status
\* code and a JSON payload of the shape {error, code?, details?}.
C23_AppErrorsTranslated ==
    \A r \in Slots :
        (req[r].pc = "done" /\ req[r].err.type = "AppError")
        => /\ req[r].resp.sent
           /\ req[r].resp.status = req[r].err.statusCode
           /\ req[r].resp.json
           /\ "error" \in DOMAIN req[r].resp.body
           /\ DOMAIN req[r].resp.body \subseteq {"error", "code", "details"}

\* C24: the documented geo routes are reachable: GET /api/geo/self is
\* dispatched to geoSelfController and GET /api/geo/<ip> to
\* geoByIpController with that ip, and the segment "self" is never taken
\* for the :ip parameter.
C24_DocumentedGeoRoutesReachable ==
    (call.fn = "dispatch" /\ call.method = "GET")
    => /\ call.path = <<"api", "geo", "self">>
              => call.out = [handler |-> "geoSelfController", status |-> 0, ip |-> ""]
       /\ call.path = <<"api", "geo", "8.8.8.8">>
              => call.out = [handler |-> "geoByIpController", status |-> 0, ip |-> "8.8.8.8"]
       /\ call.out.ip # "self"

\* an email after trim and lower case
Canonical(email) == ToLower(Trim(email))

\* the rows whose email equals the email of the request after trim and
\* lower case
SameEmailRows(q) ==
    {i \in 1..Len(users) : q.email.t = "string" /\ Canonical(users[i].email) = Canonical(q.email.s)}

\* no two rows have the same email after trim and lower case
EmailsUnique ==
    \A i, j \in 1..Len(users) :
        Canonical(users[i].email) = Canonical(users[j].email) => i = j

\* a login with a variant of a registered email and the password of that
\* row, with the secret configured and the store answering, succeeds
LoginVariantSucceeds ==
    \A r \in Slots :
        (req[r].route = "login" /\ req[r].pc = "done" /\ req[r].handler
            /\ secret # NoSecret
            /\ req[r].err # StoreError
            /\ \E i \in SameEmailRows(req[r]) :
                   verifyPassword(req[r].cred.password, users[i].passwordHash))
        => /\ req[r].resp = Ok(200, [token |-> req[r].token])
           /\ \E i \in SameEmailRows(req[r]) : req[r].token.sub = JsStr(users[i].id)

\* the store answers the findByEmail of a register whose email a row has:
\* 409 EMAIL_EXISTS
RegisterExistingIsConflict(r) ==
    (req[r].pc = "reg_find" /\ req'[r].pc # "reg_find"
        /\ SameEmailRows(req[r]) # {} /\ req'[r].err # StoreError)
    => /\ req'[r].pc = "done"
       /\ req'[r].err = AppError(409, "Email already registered", "EMAIL_EXISTS")
       /\ req'[r].resp.status = 409
       /\ users' = users

\* a row is created only for an email no row has
RowOnlyForNewEmail(r) ==
    (req[r].pc = "reg_create" /\ req'[r].pc = "done" /\ users' # users)
    => /\ SameEmailRows(req[r]) = {}
       /\ Len(users') = Len(users) + 1
       /\ users'[Len(users')].email = Canonical(req[r].email.s)

\* C25: emails are unique case-insensitively. After any sequence of
\* register requests no two user rows have emails that are equal after
\* trim and lower case; a register whose email equals that of an existing
\* row after trim and lower case is answered 409 EMAIL_EXISTS and creates
\* no row; a login with any case or whitespace variant of the registered
\* email and the right password succeeds.
C25_EmailsUniqueCaseInsensitively ==
    /\ [](EmailsUnique /\ LoginVariantSucceeds)
    /\ [][\A r \in Slots : RegisterExistingIsConflict(r) /\ RowOnlyForNewEmail(r)]_vars

\* "a@b.c" is registered and a register of " A@b.c" was answered 409
C25_Witness ==
    \E r \in Slots :
        /\ req[r].route = "register"
        /\ req[r].pc = "done"
        /\ req[r].email = JsStr(EmailAVariant)
        /\ req[r].resp.status = 409
        /\ req[r].err.code = "EMAIL_EXISTS"
        /\ Len(users) = 1
        /\ users[1].email = EmailA

\* the handler of a request that takes an ip from the client has read it
TakesIp(q) == q.route \in {"geo_ip", "history_search"} /\ q.handler

\* the submitted ip is missing, not a string, or not an IPv4/IPv6 literal
\* after normalisation
InvalidSubmitted(q) ==
    \/ q.ipRaw.t # "string"
    \/ normalizeIp(q.ipRaw).t # "string"
    \/ ~(isIPv4(normalizeIp(q.ipRaw).s) \/ isIPv6(normalizeIp(q.ipRaw).s))

\* the request failed with 400 INVALID_IP before any side effect
RejectedInvalidIp(q) ==
    /\ q.pc = "done"
    /\ q.err = AppError(400, "Invalid IP address", "INVALID_IP")
    /\ q.resp.status = 400
    /\ q.calls = 0
    /\ ~q.resolved
    /\ q.persist = "none"

\* C26: invalid IP input is rejected before any side effect. For GET
\* /geo/:ip and POST /history/search, when the submitted ip is missing, not
\* a string, or not a valid IPv4/IPv6 literal after normalisation, the
\* request fails with 400 INVALID_IP, the lookup is not invoked and no
\* history row is created.
C26_InvalidIpRejectedFirst ==
    /\ [](\A r \in Slots : (TakesIp(req[r]) /\ InvalidSubmitted(req[r]))
                              => RejectedInvalidIp(req[r]))
    /\ [][\A r \in Slots :
             (TakesIp(req'[r]) /\ InvalidSubmitted(req'[r]) /\ req'[r] # req[r])
             => histories' = histories /\ nextHistoryId' = nextHistoryId]_vars

\* POST /history/search with ip "999.1.1.1" was answered 400 and the store
\* is empty
C26_Witness ==
    \E r \in Slots :
        /\ req[r].route = "history_search"
        /\ req[r].handler
        /\ req[r].ipRaw = JsStr(<<"9", "9", "9", ".", "1", ".", "1", ".", "1">>)
        /\ req[r].resp.status = 400
        /\ req[r].calls = 0
        /\ histories = <<>>

\* searchAndRecord is at or past its call of createSearchHistory
PersistStarted(q) == q.route = "history_search" /\ q.persist # "none"

\* the store has answered the createSearchHistory of request r by writing
\* a row
PersistWrites(r) ==
    /\ req[r].pc = "persist_wait"
    /\ req'[r].pc = "done"
    /\ histories' # histories

\* C27: within a single searchAndRecord call the persistence attempt is
\* started only after geo resolution has completed: createSearchHistory is
\* never invoked before resolve has returned, and the row it is asked to
\* store carries exactly the value resolve returned (no geo, hence no row,
\* when that value is null).
C27_ResolveBeforePersist ==
    /\ [](\A r \in Slots :
              /\ PersistStarted(req[r]) => (req[r].resolved /\ req[r].geo.kind = "return")
              /\ (req[r].route = "history_search" /\ req[r].pc = "lookup_wait")
                     => (~req[r].resolved /\ req[r].persist = "none"))
    /\ [][\A r \in Slots :
             PersistWrites(r)
             => /\ Len(histories') = Len(histories) + 1
                /\ histories'[Len(histories')].geo = req[r].geo.value
                /\ req[r].geo.value # JsNull
                /\ req'[r].geo = req[r].geo
                /\ req'[r].resp = Ok(200, [geo |-> req[r].geo.value])]_vars

\* a search waited for the provider, resolve returned a snapshot, and the
\* row written afterwards carries that snapshot
C27_Witness ==
    \E r \in Slots :
        /\ req[r].route = "history_search"
        /\ req[r].pc = "done"
        /\ req[r].calls = 1
        /\ req[r].persist = "stored"
        /\ Len(histories) = 1
        /\ histories[1].geo = req[r].geo.value
        /\ req[r].geo.value.t = "geo"

\* the register request of slot r ends without success
RegisterFails(r) ==
    /\ req'[r].route = "register"
    /\ req[r].pc # "done"
    /\ req'[r].pc = "done"
    /\ req'[r].resp.status # 201

\* C28: a register request that does not end in success leaves the user
\* store unchanged: whenever register fails (invalid input, existing email,
\* hashing failure, or token signing failure such as a missing signing
\* secret) no new user row exists afterwards.
C28_FailedRegisterLeavesStore ==
    [][\A r \in Slots : RegisterFails(r) => users' = users]_vars

\* C29: the lookup is only ever invoked with a string that is a
\* syntactically valid, non-private IP literal, on every path that reaches
\* it: GET /geo/:ip, POST /history/search and GET /geo/self.
C29_LookupOnlyForValidPublicIp ==
    \A r \in Slots :
        req[r].calls > 0
        => /\ req[r].ip.t = "string"
           /\ isIPv4(req[r].ip.s) \/ isIPv6(req[r].ip.s)
           /\ ~isPrivateIp(req[r].ip.s)

\* the store, working, has answered the createSearchHistory of request r,
\* whose user has a row in users
SearchAnsweredByStore(r) ==
    /\ req[r].route = "history_search"
    /\ req[r].pc = "persist_wait"
    /\ req'[r].pc = "done"
    /\ req'[r].persistErr # StoreError
    /\ \E i \in 1..Len(users) : users[i].id = req[r].user.id

\* the row is owned by the subject of the bearer token of request q and
\* its ip is a normalised IPv4/IPv6 literal
RowOfRequest(row, q) ==
    /\ PartToken(HeaderParts(q.header)[2]).sub = JsStr(row.userId)
    /\ row.userId = q.user.id
    /\ isIPv4(row.ip) \/ isIPv6(row.ip)
    /\ normalizeIp(JsStr(row.ip)) = JsStr(row.ip)

\* C30: history row invariant. Every history row created through POST
\* /history/search has as owner the subject of the bearer token that
\* authenticated the creating request and as ip a normalised, valid
\* IPv4/IPv6 literal; and every such request with a working store creates
\* exactly one row, also when the resolved geo is null (private IP or
\* lookup failure).
C30_OneRowPerSearch ==
    [][\A r \in Slots :
          /\ SearchAnsweredByStore(r)
             => /\ Len(histories') = Len(histories) + 1
                /\ SubSeq(histories', 1, Len(histories)) = histories
          /\ (req[r].route = "history_search" /\ histories' # histories)
             => RowOfRequest(histories'[Len(histories')], req[r])]_vars

=============================================================================
